---- MODULE Spec2Model ----
(***************************************************************************)
(* Patch-application core of the PP3 profile editor: the section splitter, *)
(* the two edit parsers, the fuzzy patch engine with its literal fallback  *)
(* and the document reconstructor.                                         *)
(*                                                                         *)
(* A string is a sequence of one-character strings; a document is one      *)
(* string whose lines are separated by NL, exactly as the code holds it.   *)
(***************************************************************************)
EXTENDS Integers, Sequences, FiniteSets, TLC

VARIABLES
  pc,            \* position of the operation under way
  content,       \* the document handed to the patch engine
  search,        \* the edit block's search text
  replace,       \* the edit block's replace text
  fuzzyResult,   \* what applyFuzzySearchReplace returned
  result,        \* what the driver returned
  text,          \* the lines parseSearchReplaceBlocks has read so far
  isInSearch,    \* ParseState.isInSearch
  isInReplace,   \* ParseState.isInReplace
  currentBlock,  \* ParseState.currentBlock
  blocks,        \* the blocks emitted so far
  sectionNames,      \* the allow-list of section names
  responseText,      \* the AI response
  includedSections,  \* split output: sections on the allow-list
  excludedSections,  \* split output: the other sections
  sectionOrders,     \* split output: every section name, in document order
  sectionChanges,    \* the SectionChanges parsed from the response or applied
  lineIndex,           \* splitContentBySections: the line its loop is at
  sections,            \* splitContentBySections: the sections pushed so far
  currentSection,      \* SectionParseState.currentSection
  currentSectionName,  \* SectionParseState.currentSectionName
  sectionIndex,        \* SectionParseState.sectionIndex
  inSection,           \* SectionParseState.inSection
  processed,           \* the calls of processSection, in the order made
  generationResults,   \* evaluateGenerations: the results, shared with the caller
  successfulResults,   \* evaluateGenerations: the results it filtered, by position
  modelCount,          \* models.length
  modelIndex,          \* the loop variable of evaluateGenerations
  bestIndex            \* the bestIndex evaluateGenerations returned

patchVars == <<content, search, replace, fuzzyResult, result>>

parserVars == <<text, isInSearch, isInReplace, currentBlock, blocks>>

genVars ==
  <<sectionNames, responseText, includedSections, excludedSections, sectionOrders,
    sectionChanges>>

splitVars ==
  <<lineIndex, sections, currentSection, currentSectionName, sectionIndex,
    inSection, processed>>

evalVars ==
  <<generationResults, successfulResults, modelCount, modelIndex, bestIndex>>

vars == <<pc, patchVars, parserVars, genVars, splitVars, evalVars>>

----------------------------------------------------------------------------
(* Bounds of the explored inputs.                                          *)

MaxDocLines == 3

MaxParams == 2

MaxTextLines == 6

MaxWellFormedLines == 10

MaxDirectLines == 4

MaxSplitLines == 4

MaxGenerations == 3

MaxModels == 2

----------------------------------------------------------------------------
(* String primitives of the runtime, as the code uses them.                *)

NL == "\n"

Empty == << >>

\* String.prototype.trim and the regular expression class \s.
IsSpace(c) == c \in {" ", NL}

MinOf(S) == CHOOSE x \in S : \A y \in S : x <= y

MaxOf(S) == CHOOSE x \in S : \A y \in S : x >= y

\* s.trim()
Trim(s) ==
  LET solid == {i \in 1..Len(s) : ~IsSpace(s[i])}
  IN  IF solid = {} THEN Empty ELSE SubSeq(s, MinOf(solid), MaxOf(solid))

\* /^\s*/.exec(s)[0]
Indentation(s) ==
  LET solid == {i \in 1..Len(s) : ~IsSpace(s[i])}
  IN  IF solid = {} THEN s ELSE SubSeq(s, 1, MinOf(solid) - 1)

\* s.startsWith(p)
StartsWith(s, p) == Len(p) <= Len(s) /\ SubSeq(s, 1, Len(p)) = p

\* s.endsWith(p)
EndsWith(s, p) == Len(p) <= Len(s) /\ SubSeq(s, Len(s) - Len(p) + 1, Len(s)) = p

\* s.split("\n"): never empty, "" splits to one empty line.
RECURSIVE Split(_)
Split(s) ==
  LET nls == {i \in 1..Len(s) : s[i] = NL}
  IN  IF nls = {} THEN <<s>>
      ELSE LET k == MinOf(nls)
           IN  <<SubSeq(s, 1, k - 1)>> \o Split(SubSeq(s, k + 1, Len(s)))

\* lines.join("\n")
RECURSIVE Join(_)
Join(lines) ==
  IF Len(lines) = 0 THEN Empty
  ELSE IF Len(lines) = 1 THEN lines[1]
  ELSE lines[1] \o <<NL>> \o Join(Tail(lines))

\* s.indexOf(p), 1-based; 0 when p does not occur.
IndexOf(s, p) ==
  LET hits == {i \in 1..(Len(s) - Len(p) + 1) : SubSeq(s, i, i + Len(p) - 1) = p}
  IN  IF hits = {} THEN 0 ELSE MinOf(hits)

\* s.replace(p, r) with a string pattern: the first occurrence only (the
\* alphabet holds no "$", so r is inserted literally).
ReplaceFirst(s, p, r) ==
  LET k == IndexOf(s, p)
  IN  IF k = 0 THEN s
      ELSE SubSeq(s, 1, k - 1) \o r \o SubSeq(s, k + Len(p), Len(s))

\* s.split("=")[0]
KeyOf(s) ==
  LET eqs == {i \in 1..Len(s) : s[i] = "="}
  IN  IF eqs = {} THEN s ELSE SubSeq(s, 1, MinOf(eqs) - 1)

\* line.trim().startsWith("[")
StartsWithBracket(line) == StartsWith(Trim(line), <<"[">>)

\* line.startsWith("[") && line.endsWith("]") on a trimmed line
IsWellFormedHeader(line) == StartsWith(line, <<"[">>) /\ EndsWith(line, <<"]">>)

----------------------------------------------------------------------------
(* Fuzzy patch engine (pp3-processing/search-replace.ts).                  *)

\* findSectionBoundaries that never stops at the next header: the section is
\* taken to run to the end of the document.
findSectionBoundaries_ToEnd(contentLines, sectionHeader) ==
  LET starts == {i \in 1..Len(contentLines) : Trim(contentLines[i]) = sectionHeader}
  IN  IF starts = {} THEN [found |-> FALSE, startIndex |-> 0, endIndex |-> 0]
      ELSE [found |-> TRUE, startIndex |-> MinOf(starts),
            endIndex |-> Len(contentLines) + 1]

\* Indices are 1-based: startIndex is the header line, endIndex the next
\* well-formed header line or one past the last line.
findSectionBoundaries(contentLines, sectionHeader) ==
  LET starts == {i \in 1..Len(contentLines) : Trim(contentLines[i]) = sectionHeader}
  IN  IF starts = {} THEN [found |-> FALSE, startIndex |-> 0, endIndex |-> 0]
      ELSE LET s == MinOf(starts)
               ends == {i \in (s + 1)..Len(contentLines) :
                          IsWellFormedHeader(Trim(contentLines[i]))}
           IN  [found |-> TRUE, startIndex |-> s,
                endIndex |-> IF ends = {} THEN Len(contentLines) + 1 ELSE MinOf(ends)]

IsParameterText(line) == ~StartsWithBracket(line) /\ Len(Trim(line)) > 0

extractParameters(lines) ==
  LET kept == SelectSeq(lines, IsParameterText)
  IN  [i \in 1..Len(kept) |-> Trim(kept[i])]

\* createReplacementMap that keeps the first pairing of a repeated key.
createReplacementMap_FirstPairing(searchParameters, replaceParameters) ==
  LET keys == {KeyOf(searchParameters[i]) : i \in 1..Len(searchParameters)}
  IN  [k \in keys |->
         replaceParameters[MinOf({i \in 1..Len(searchParameters) :
                                    KeyOf(searchParameters[i]) = k})]]

\* A Map: a function from the keys set so far; a later set() of the same key
\* overwrites.  Only called with lists of equal length.
createReplacementMap(searchParameters, replaceParameters) ==
  LET keys == {KeyOf(searchParameters[i]) : i \in 1..Len(searchParameters)}
  IN  [k \in keys |->
         replaceParameters[MaxOf({i \in 1..Len(searchParameters) :
                                    KeyOf(searchParameters[i]) = k})]]

\* applyReplacementsInSection that writes the replacement value alone,
\* without the document line's indentation.
applyReplacementsInSection_NoIndent(contentLines, boundaries, replaceMap) ==
  [index \in 1..Len(contentLines) |->
     LET line == Trim(contentLines[index])
     IN  IF /\ boundaries.startIndex < index
            /\ index < boundaries.endIndex
            /\ Len(line) # 0
            /\ KeyOf(line) \in DOMAIN replaceMap
         THEN replaceMap[KeyOf(line)]
         ELSE contentLines[index]]

applyReplacementsInSection(contentLines, boundaries, replaceMap) ==
  [index \in 1..Len(contentLines) |->
     LET line == Trim(contentLines[index])
     IN  IF /\ boundaries.startIndex < index
            /\ index < boundaries.endIndex
            /\ Len(line) # 0
            /\ KeyOf(line) \in DOMAIN replaceMap
         THEN Indentation(contentLines[index]) \o replaceMap[KeyOf(line)]
         ELSE contentLines[index]]

HeaderLines(lines) == SelectSeq(lines, StartsWithBracket)

\* applyFuzzySearchReplace that falls back to the literal replacement when
\* the section is not found, instead of returning the document.
applyFuzzySearchReplace_MissingFallsBack(doc, srch, repl) ==
  LET searchLines == Split(Trim(srch))
      replaceLines == Split(Trim(repl))
      contentLines == Split(doc)
      headers == HeaderLines(searchLines)
  IN  IF Len(headers) = 0 THEN ReplaceFirst(doc, Trim(srch), Trim(repl))
      ELSE
        LET sectionHeader == Trim(headers[1])
            boundaries == findSectionBoundaries(contentLines, sectionHeader)
            searchParameters == extractParameters(searchLines)
            replaceParameters == extractParameters(replaceLines)
        IN  IF ~boundaries.found \/ Len(searchParameters) # Len(replaceParameters)
            THEN ReplaceFirst(doc, Trim(srch), Trim(repl))
            ELSE Join(applyReplacementsInSection(contentLines, boundaries,
                        createReplacementMap(searchParameters, replaceParameters)))

\* applyFuzzySearchReplace without the parameter-count check: the pairs
\* that exist are applied.
applyFuzzySearchReplace_NoCountCheck(doc, srch, repl) ==
  LET searchLines == Split(Trim(srch))
      replaceLines == Split(Trim(repl))
      contentLines == Split(doc)
      headers == HeaderLines(searchLines)
  IN  IF Len(headers) = 0 THEN ReplaceFirst(doc, Trim(srch), Trim(repl))
      ELSE
        LET sectionHeader == Trim(headers[1])
            boundaries == findSectionBoundaries(contentLines, sectionHeader)
            searchParameters == extractParameters(searchLines)
            replaceParameters == extractParameters(replaceLines)
            n == IF Len(searchParameters) < Len(replaceParameters)
                 THEN Len(searchParameters) ELSE Len(replaceParameters)
        IN  IF ~boundaries.found THEN doc
            ELSE Join(applyReplacementsInSection(contentLines, boundaries,
                        createReplacementMap(SubSeq(searchParameters, 1, n),
                                             SubSeq(replaceParameters, 1, n))))

applyFuzzySearchReplace(doc, srch, repl) ==
  LET searchLines == Split(Trim(srch))
      replaceLines == Split(Trim(repl))
      contentLines == Split(doc)
      headers == HeaderLines(searchLines)
  IN  IF Len(headers) = 0 THEN ReplaceFirst(doc, Trim(srch), Trim(repl))
      ELSE
        LET sectionHeader == Trim(headers[1])
            boundaries == findSectionBoundaries(contentLines, sectionHeader)
            searchParameters == extractParameters(searchLines)
            replaceParameters == extractParameters(replaceLines)
        IN  IF ~boundaries.found THEN doc
            ELSE IF Len(searchParameters) # Len(replaceParameters)
                 THEN ReplaceFirst(doc, Trim(srch), Trim(repl))
            ELSE Join(applyReplacementsInSection(contentLines, boundaries,
                        createReplacementMap(searchParameters, replaceParameters)))

\* The driver without its own literal replacement.
literalIfUnchanged_Never(doc, fuzzy, srch, repl) == fuzzy

\* The driver's use of the fuzzy result: the literal replacement when the
\* fuzzy call returned its input.
literalIfUnchanged(doc, fuzzy, srch, repl) ==
  IF fuzzy = doc THEN ReplaceFirst(doc, Trim(srch), Trim(repl)) ELSE fuzzy

\* One iteration of the driver's loop over the blocks.
applySearchReplaceBlock(doc, srch, repl) ==
  literalIfUnchanged(doc, applyFuzzySearchReplace(doc, srch, repl), srch, repl)

----------------------------------------------------------------------------
(* Section splitter and classifier (pp3-sections/section-parser.ts).       *)

\* trimmedLine.slice(1, -1): without its first and its last character.
SliceInner(s) == IF Len(s) < 2 THEN Empty ELSE SubSeq(s, 2, Len(s) - 1)

\* The text of the section opened by the header at line h: the header line
\* and every following line up to the next line that starts with "[",
\* joined by newlines as the scan accumulates them, then trimmed when the
\* section is finalized.
SectionTextAt(lines, h) ==
  LET later == {i \in (h + 1)..Len(lines) : StartsWithBracket(lines[i])}
      last == IF later = {} THEN Len(lines) ELSE MinOf(later) - 1
  IN  Trim(Join(SubSeq(lines, h, last)))

\* splitContentBySections: one section and one name per line that starts
\* with "[" once trimmed; lines before the first such line are dropped.
splitContentBySections(doc) ==
  IF Trim(doc) = Empty THEN [sections |-> << >>, sectionOrders |-> << >>]
  ELSE
    LET lines == Split(doc)
        heads == {i \in 1..Len(lines) : StartsWithBracket(lines[i])}
        headAt(k) == CHOOSE h \in heads : Cardinality({x \in heads : x <= h}) = k
    IN  [sections |-> [k \in 1..Cardinality(heads) |-> SectionTextAt(lines, headAt(k))],
         sectionOrders |->
           [k \in 1..Cardinality(heads) |-> SliceInner(Trim(lines[headAt(k)]))]]

\* The indices of the sections the callback of splitPP3ContentBySections
\* puts in one bucket, in document order.
RECURSIVE Bucket(_, _, _, _)
Bucket(split, names, wanted, k) ==
  IF k > Len(split.sections) THEN << >>
  ELSE (IF (split.sectionOrders[k] \in names) = wanted
        THEN <<split.sections[k]>> ELSE << >>)
       \o Bucket(split, names, wanted, k + 1)

splitPP3ContentBySections(doc, names) ==
  LET split == splitContentBySections(doc)
  IN  [sections |-> split.sections,
       sectionOrders |-> split.sectionOrders,
       includedSections |-> Bucket(split, names, TRUE, 1),
       excludedSections |-> Bucket(split, names, FALSE, 1)]

----------------------------------------------------------------------------
(* Section map and reconstruction (pp3-sections/section-manipulation.ts).  *)

\* /^\[(.*?)\]/.exec(section): the text between the leading "[" and the
\* first "]" of the first line; no match when the section does not start so.
HeaderMatch(section) ==
  LET firstLine == Split(section)[1]
      closes == {i \in 1..Len(firstLine) : firstLine[i] = "]"}
  IN  IF StartsWith(section, <<"[">>) /\ closes # {}
      THEN [matched |-> TRUE, name |-> SubSeq(firstLine, 2, MinOf(closes) - 1)]
      ELSE [matched |-> FALSE, name |-> Empty]

\* createSectionMap: a later section of the same name overwrites.
createSectionMap(sectionList) ==
  LET named == {i \in 1..Len(sectionList) : HeaderMatch(sectionList[i]).matched}
      names == {HeaderMatch(sectionList[i]).name : i \in named}
  IN  [n \in names |->
         sectionList[MaxOf({i \in named : HeaderMatch(sectionList[i]).name = n})]]

\* list.find(section => section.startsWith("[" + name + "]")), or NotFound.
NotFound == <<"undefined">>

FindByHeader(list, name) ==
  LET hits == {i \in 1..Len(list) : StartsWith(list[i], <<"[">> \o name \o <<"]">>)}
  IN  IF hits = {} THEN NotFound ELSE list[MinOf(hits)]

reconstructPP3Content(order, edited, included, excluded) ==
  Join([k \in 1..Len(order) |->
          IF FindByHeader(edited, order[k]) # NotFound
          THEN FindByHeader(edited, order[k])
          ELSE IF FindByHeader(included, order[k]) # NotFound
          THEN FindByHeader(included, order[k])
          ELSE IF FindByHeader(excluded, order[k]) # NotFound
          THEN FindByHeader(excluded, order[k])
          ELSE Empty])

\* reconstructContent: the map's text per name of the order, empty texts
\* (a name the map does not hold) filtered out.
IsNonEmpty(s) == s # Empty

reconstructContent(order, sectionMap) ==
  Join(SelectSeq([k \in 1..Len(order) |->
                    IF order[k] \in DOMAIN sectionMap THEN sectionMap[order[k]]
                    ELSE Empty],
                 IsNonEmpty))

----------------------------------------------------------------------------
(* Edit-block parser, dialect B (pp3-parser.ts).                           *)

\* The code fence of three backticks; the backtick is written "#" here.
Fence == <<"#", "#", "#">>

\* extractCodeBlocks: the text between one fence and the next, lazily and
\* repeatedly, each non-empty body trimmed.
RECURSIVE extractCodeBlocks(_)
extractCodeBlocks(txt) ==
  LET open == IndexOf(txt, Fence)
  IN  IF open = 0 THEN << >>
      ELSE LET rest == SubSeq(txt, open + 3, Len(txt))
               close == IndexOf(rest, Fence)
           IN  IF close = 0 THEN << >>
               ELSE (IF close = 1 THEN << >>
                     ELSE <<Trim(SubSeq(rest, 1, close - 1))>>)
                    \o extractCodeBlocks(SubSeq(rest, close + 3, Len(rest)))

\* extractContentToProcess that never looks for fences.
extractContentToProcess_WholeText(txt) == txt

extractContentToProcess(txt) ==
  LET codeBlocks == extractCodeBlocks(txt)
  IN  IF Len(codeBlocks) > 0 THEN Join(codeBlocks) ELSE txt

\* Map.set that keeps the first value of a key instead of the last.
MapSet_KeepFirst(entries, name, line) ==
  IF \E i \in 1..Len(entries) : entries[i].name = name THEN entries
  ELSE Append(entries, [name |-> name, line |-> line])

\* Map.set on an insertion-ordered map kept as a sequence of entries.
MapSet(entries, name, line) ==
  LET at == {i \in 1..Len(entries) : entries[i].name = name}
  IN  IF at = {} THEN Append(entries, [name |-> name, line |-> line])
      ELSE [entries EXCEPT ![MinOf(at)] = [name |-> name, line |-> line]]

\* processParameterLine: the entry is set unless the name is empty.
processParameterLine(line, change) ==
  IF KeyOf(line) # Empty
  THEN [change EXCEPT !.parameters = MapSet(change.parameters, KeyOf(line), line)]
  ELSE change

\* processContentLines from line k on: open holds the current change (at
\* most one), done the changes finalized so far.
RECURSIVE processContentLines(_, _, _, _)
processContentLines(lines, k, open, done) ==
  IF k > Len(lines) THEN done \o open
  ELSE
    LET trimmedLine == Trim(lines[k])
    IN  IF trimmedLine = Empty THEN processContentLines(lines, k + 1, open, done)
        ELSE IF IsWellFormedHeader(trimmedLine)
        THEN processContentLines(lines, k + 1,
               <<[sectionName |-> SliceInner(trimmedLine), parameters |-> << >>]>>,
               done \o open)
        ELSE IF (\E i \in 1..Len(trimmedLine) : trimmedLine[i] = "=") /\ Len(open) > 0
        THEN processContentLines(lines, k + 1,
               <<processParameterLine(trimmedLine, open[1])>>, done)
        ELSE processContentLines(lines, k + 1, open, done)

parseDirectSectionChanges(txt) ==
  processContentLines(Split(extractContentToProcess(txt)), 1, << >>, << >>)

----------------------------------------------------------------------------
(* Direct section changes (pp3-sections/section-manipulation.ts).          *)

\* The pattern of new RegExp("^\\s*" + name + "\\s*=.*$", "m") as far as the
\* name decides it: one set of characters per position, a bracketed class
\* being one position; a "[" that is never closed is a syntax error.  The
\* alphabet holds no other character that is special in a pattern.
RECURSIVE RegexElements(_)
RegexElements(name) ==
  IF name = Empty THEN [valid |-> TRUE, elems |-> << >>]
  ELSE IF Head(name) = "["
  THEN LET closes == {i \in 2..Len(name) : name[i] = "]"}
       IN  IF closes = {} THEN [valid |-> FALSE, elems |-> << >>]
           ELSE LET k == MinOf(closes)
                    rest == RegexElements(SubSeq(name, k + 1, Len(name)))
                IN  [valid |-> rest.valid,
                     elems |-> <<{name[i] : i \in 2..(k - 1)}>> \o rest.elems]
  ELSE LET rest == RegexElements(Tail(name))
       IN  [valid |-> rest.valid, elems |-> <<{Head(name)}>> \o rest.elems]

\* parameterRegex.test(line) for a line without a line break.
ParameterRegexTest(elems, line) ==
  \E k \in 0..Len(line), m \in 0..Len(line) :
    /\ k + Len(elems) + m + 1 <= Len(line)
    /\ \A i \in 1..k : IsSpace(line[i])
    /\ \A j \in 1..Len(elems) : line[k + j] \in elems[j]
    /\ \A i \in 1..m : IsSpace(line[k + Len(elems) + i])
    /\ line[k + Len(elems) + m + 1] = "="

IsLetter(c) == c \in {"a", "b", "c", "s", "t", "x", "y"}

IsDigit(c) == c \in {"0", "1", "2", "3", "4", "5", "6", "7", "8", "9"}

ToUpper(c) ==
  CASE c = "a" -> "A" [] c = "b" -> "B" [] c = "c" -> "C" [] c = "s" -> "S"
    [] c = "t" -> "T" [] c = "x" -> "X" [] c = "y" -> "Y" [] OTHER -> c

\* The camelcase package on text without upper-case letters and with the
\* space as only separator: the text is trimmed; a run of spaces followed
\* by a letter or digit is removed and that character upper-cased; a letter
\* that follows a digit is upper-cased.
RECURSIVE JoinWords(_)
JoinWords(s) ==
  IF s = Empty THEN Empty
  ELSE IF Head(s) = " "
  THEN LET solid == {i \in 1..Len(s) : s[i] # " "}
       IN  IF solid = {} THEN Empty
           ELSE LET k == MinOf(solid)
                IN  IF IsLetter(s[k]) \/ IsDigit(s[k])
                    THEN <<ToUpper(s[k])>> \o JoinWords(SubSeq(s, k + 1, Len(s)))
                    ELSE SubSeq(s, 1, k) \o JoinWords(SubSeq(s, k + 1, Len(s)))
  ELSE <<Head(s)>> \o JoinWords(Tail(s))

camelcase(s) ==
  LET joined == JoinWords(Trim(s))
  IN  [i \in 1..Len(joined) |->
         IF i > 1 /\ IsDigit(joined[i - 1]) THEN ToUpper(joined[i]) ELSE joined[i]]

\* s.slice(from) with a 0-based start; a negative start counts from the end.
Slice(s, from) ==
  IF from >= 0 THEN SubSeq(s, from + 1, Len(s))
  ELSE SubSeq(s, (IF Len(s) + from < 0 THEN 0 ELSE Len(s) + from) + 1, Len(s))

\* applyParameterChanges that rewrites every line the pattern matches,
\* not the first alone.
RECURSIVE applyParameterEntries_EveryMatch(_, _, _, _)
applyParameterEntries_EveryMatch(lines, updated, parameters, k) ==
  IF k > Len(parameters) THEN [threw |-> FALSE, text |-> Join(updated)]
  ELSE
    LET regex == RegexElements(parameters[k].name)
        parameterLine == parameters[k].line
        hits == {i \in 1..Len(lines) : ParameterRegexTest(regex.elems, lines[i])}
        indexOfAssignment == IndexOf(parameterLine, <<"=">>) - 1
    IN  IF ~regex.valid THEN [threw |-> TRUE, text |-> Empty]
        ELSE applyParameterEntries_EveryMatch(lines,
               [i \in 1..Len(updated) |->
                  IF /\ i \in hits
                     /\ camelcase(Slice(updated[i], indexOfAssignment))
                          # Slice(camelcase(parameterLine), indexOfAssignment)
                  THEN parameterLine ELSE updated[i]],
               parameters, k + 1)

\* applyParameterChanges from entry k on: lines are the section's original
\* lines, updated the lines as rewritten so far.
RECURSIVE applyParameterEntries(_, _, _, _)
applyParameterEntries(lines, updated, parameters, k) ==
  IF k > Len(parameters) THEN [threw |-> FALSE, text |-> Join(updated)]
  ELSE
    LET regex == RegexElements(parameters[k].name)
        parameterLine == parameters[k].line
        hits == {i \in 1..Len(lines) : ParameterRegexTest(regex.elems, lines[i])}
        indexOfAssignment == IndexOf(parameterLine, <<"=">>) - 1
    IN  IF ~regex.valid THEN [threw |-> TRUE, text |-> Empty]
        ELSE IF /\ hits # {}
                /\ camelcase(Slice(updated[MinOf(hits)], indexOfAssignment))
                     # Slice(camelcase(parameterLine), indexOfAssignment)
        THEN applyParameterEntries(lines,
               [updated EXCEPT ![MinOf(hits)] = parameterLine], parameters, k + 1)
        ELSE applyParameterEntries(lines, updated, parameters, k + 1)

applyParameterChanges(sectionContent, parameters) ==
  applyParameterEntries(Split(sectionContent), Split(sectionContent), parameters, 1)

\* applySectionChanges from change k on; a change whose section the map
\* does not hold is skipped.
RECURSIVE applySectionChanges(_, _, _)
applySectionChanges(sectionMap, changes, k) ==
  IF k > Len(changes) THEN [threw |-> FALSE, map |-> sectionMap]
  ELSE
    LET name == changes[k].sectionName
    IN  IF name \notin DOMAIN sectionMap
        THEN applySectionChanges(sectionMap, changes, k + 1)
        ELSE LET updated == applyParameterChanges(sectionMap[name],
                                                  changes[k].parameters)
             IN  IF updated.threw THEN [threw |-> TRUE, map |-> sectionMap]
                 ELSE applySectionChanges([sectionMap EXCEPT ![name] = updated.text],
                                          changes, k + 1)

applyDirectSectionChanges(doc, changes) ==
  IF Len(changes) = 0 THEN [threw |-> FALSE, text |-> doc]
  ELSE
    LET split == splitContentBySections(doc)
        applied == applySectionChanges(createSectionMap(split.sections),
                                       changes, 1)
    IN  IF applied.threw THEN [threw |-> TRUE, text |-> Empty]
        ELSE [threw |-> FALSE,
              text |-> reconstructContent(split.sectionOrders, applied.map)]

\* applySearchReplaceBlocks with every block applied to the input document
\* instead of the previous block's output.
applySearchReplaceBlocks_EachOnInput(doc, list, k) ==
  IF \E i \in k..Len(list) : list[i].search = Empty \/ list[i].replace = Empty
  THEN [threw |-> TRUE, text |-> Empty]
  ELSE IF k > Len(list) THEN [threw |-> FALSE, text |-> doc]
  ELSE [threw |-> FALSE,
        text |-> applySearchReplaceBlock(doc, list[Len(list)].search,
                                         list[Len(list)].replace)]

\* applySearchReplaceBlocks from block k on; an empty search or replace
\* string throws.
RECURSIVE applySearchReplaceBlocks(_, _, _)
applySearchReplaceBlocks(doc, list, k) ==
  IF k > Len(list) THEN [threw |-> FALSE, text |-> doc]
  ELSE IF list[k].search = Empty \/ list[k].replace = Empty
  THEN [threw |-> TRUE, text |-> Empty]
  ELSE applySearchReplaceBlocks(
         applySearchReplaceBlock(doc, list[k].search, list[k].replace), list, k + 1)

----------------------------------------------------------------------------
(* Inputs of the patch engine.                                             *)

HeaderS == <<"[", "s", "]">>

HeaderT == <<"[", "t", "]">>

DocLines ==
  { HeaderS, HeaderT,
    <<" ", "a", "=", "1">>,
    <<"b", "=", "[", "s", "]">>,
    Empty }

SearchParamLines == { <<"a", "=", "1">>, <<"b", "=", "2">> }

ReplaceParamLines == { <<" ", " ", "a", "=", "3">>, <<"c", "=", "4">> }

SearchHeads == { << >>, <<HeaderS>> }

SeqsUpTo(S, n) == UNION {[1..k -> S] : k \in 0..n}

Documents == {Join(ls) : ls \in SeqsUpTo(DocLines, MaxDocLines)}

\* A block: the header (or none) followed by parameter lines; the replace
\* text repeats the search text's header.
Blocks ==
  { [search |-> Join(h \o sp), replace |-> Join(h \o rp)] :
      h \in SearchHeads,
      sp \in SeqsUpTo(SearchParamLines, MaxParams),
      rp \in SeqsUpTo(ReplaceParamLines, MaxParams) }

ValidBlocks == {b \in Blocks : b.search # Empty /\ b.replace # Empty}

ParserIdle ==
  /\ text = << >>
  /\ isInSearch = FALSE
  /\ isInReplace = FALSE
  /\ currentBlock = [search |-> << >>, replace |-> << >>]
  /\ blocks = << >>

GenIdle ==
  /\ sectionNames = {}
  /\ responseText = Empty
  /\ includedSections = << >>
  /\ excludedSections = << >>
  /\ sectionOrders = << >>
  /\ sectionChanges = << >>

SplitIdle ==
  /\ lineIndex = 0
  /\ sections = << >>
  /\ currentSection = Empty
  /\ currentSectionName = Empty
  /\ sectionIndex = 0
  /\ inSection = FALSE
  /\ processed = << >>

EvalIdle ==
  /\ generationResults = << >>
  /\ successfulResults = << >>
  /\ modelCount = 0
  /\ modelIndex = 0
  /\ bestIndex = 0

PatchIdle ==
  /\ content = Empty
  /\ search = Empty
  /\ replace = Empty
  /\ fuzzyResult = Empty
  /\ result = Empty

InitPatch ==
  /\ pc = "start"
  /\ ParserIdle
  /\ SplitIdle
  /\ EvalIdle
  /\ GenIdle
  /\ content \in Documents
  /\ \E b \in ValidBlocks : search = b.search /\ replace = b.replace
  /\ fuzzyResult = Empty
  /\ result = Empty

ApplySearchReplaceBlocks ==
  /\ pc = "start"
  /\ pc' = "done"
  /\ fuzzyResult' = applyFuzzySearchReplace(content, search, replace)
  /\ result' = literalIfUnchanged(content, fuzzyResult', search, replace)
  /\ UNCHANGED evalVars
  /\ UNCHANGED splitVars
  /\ UNCHANGED <<content, search, replace>>
  /\ UNCHANGED <<parserVars, genVars>>

NextPatch == ApplySearchReplaceBlocks

SpecPatch == InitPatch /\ [][NextPatch]_vars

\* The driver with one valid block over the same inputs, kept apart for the
\* properties of the driver's own literal replacement, which compare three
\* documents character by character.
SpecFallback == InitPatch /\ [][ApplySearchReplaceBlocks]_vars

\* The patch engine on the inputs of its line-skipping path alone: the block
\* has a header that is a line of the document, and its two texts list the
\* same number of parameter lines.
InitPairing ==
  /\ pc = "start"
  /\ ParserIdle
  /\ SplitIdle
  /\ EvalIdle
  /\ GenIdle
  /\ content \in {d \in Documents : \E i \in 1..Len(Split(d)) : Trim(Split(d)[i]) = HeaderS}
  /\ \E h \in SearchHeads \ {<< >>} :
       \E n \in 0..MaxParams :
         \E sp \in [1..n -> SearchParamLines], rp \in [1..n -> ReplaceParamLines] :
           /\ search = Join(h \o sp)
           /\ replace = Join(h \o rp)
  /\ fuzzyResult = Empty
  /\ result = Empty

SpecPairing == InitPairing /\ [][NextPatch]_vars

----------------------------------------------------------------------------
(* Edit-block parser, dialect A (pp3-parser.ts).                           *)

OpenMarker ==
  <<"<", "<", "<", "<", "<", "<", "<", " ", "S", "E", "A", "R", "C", "H">>

DividerMarker == <<"=", "=", "=", "=", "=", "=", "=">>

CloseMarker ==
  <<">", ">", ">", ">", ">", ">", ">", " ", "R", "E", "P", "L", "A", "C", "E">>

\* The branch parseSearchReplaceBlocks takes for a line, in the order the
\* code tests the prefixes.
LineKind(line) ==
  IF StartsWith(line, OpenMarker) THEN "open"
  ELSE IF StartsWith(line, DividerMarker) THEN "divider"
  ELSE IF StartsWith(line, CloseMarker) THEN "close"
  ELSE "content"

\* handleContentLine: the block after the line is pushed.
handleContentLine(line, block, inSearch, inReplace) ==
  [search  |-> IF inSearch THEN Append(block.search, line) ELSE block.search,
   replace |-> IF inReplace THEN Append(block.replace, line) ELSE block.replace]

\* handleReplaceEnd with the new block put first instead of last.
handleReplaceEnd_Prepend(block, emitted) ==
  IF Len(block.search) > 0 /\ Len(block.replace) > 0
  THEN <<[search |-> Join(block.search), replace |-> Join(block.replace)]>> \o emitted
  ELSE emitted

\* handleReplaceEnd: the list of blocks after a close-marker.
handleReplaceEnd(block, emitted) ==
  IF Len(block.search) > 0 /\ Len(block.replace) > 0
  THEN Append(emitted, [search |-> Join(block.search), replace |-> Join(block.replace)])
  ELSE emitted

\* The kinds of the lines of a text made of well-formed blocks: an open
\* marker, one or more content lines, a divider, one or more content lines,
\* a close marker; content lines may stand between blocks.  The value is the
\* position inside the block after the last line, or "bad".
RECURSIVE BlockShape(_)
BlockShape(lines) ==
  IF Len(lines) = 0 THEN "idle"
  ELSE LET before == BlockShape(SubSeq(lines, 1, Len(lines) - 1))
           kind == LineKind(lines[Len(lines)])
       IN  CASE before = "idle" /\ kind = "content" -> "idle"
             [] before = "idle" /\ kind = "open" -> "opened"
             [] before = "opened" /\ kind = "content" -> "searching"
             [] before = "searching" /\ kind = "content" -> "searching"
             [] before = "searching" /\ kind = "divider" -> "divided"
             [] before = "divided" /\ kind = "content" -> "replacing"
             [] before = "replacing" /\ kind = "content" -> "replacing"
             [] before = "replacing" /\ kind = "close" -> "idle"
             [] OTHER -> "bad"

ParserLines ==
  { OpenMarker, DividerMarker, CloseMarker,
    Empty, <<" ", "y">> }

\* The texts explored: every text of up to MaxTextLines lines, and the
\* texts made of well-formed blocks of up to MaxWellFormedLines lines.
Readable(line) ==
  \/ Len(text) < MaxTextLines
  \/ /\ Len(text) < MaxWellFormedLines
     /\ BlockShape(Append(text, line)) # "bad"

InitParser ==
  /\ pc = "scan"
  /\ ParserIdle
  /\ SplitIdle
  /\ EvalIdle
  /\ PatchIdle
  /\ GenIdle

HandleSearchStart ==
  /\ pc = "scan"
  /\ \E line \in ParserLines :
       /\ Readable(line)
       /\ LineKind(line) = "open"
       /\ text' = Append(text, line)
  /\ isInSearch' = TRUE
  /\ isInReplace' = FALSE
  /\ currentBlock' = [search |-> << >>, replace |-> << >>]
  /\ UNCHANGED evalVars
  /\ UNCHANGED splitVars
  /\ UNCHANGED <<pc, blocks, patchVars, genVars>>

HandleSeparator ==
  /\ pc = "scan"
  /\ \E line \in ParserLines :
       /\ Readable(line)
       /\ LineKind(line) = "divider"
       /\ text' = Append(text, line)
  /\ isInSearch' = FALSE
  /\ isInReplace' = TRUE
  /\ UNCHANGED evalVars
  /\ UNCHANGED splitVars
  /\ UNCHANGED <<pc, currentBlock, blocks, patchVars, genVars>>

HandleReplaceEnd ==
  /\ pc = "scan"
  /\ \E line \in ParserLines :
       /\ Readable(line)
       /\ LineKind(line) = "close"
       /\ text' = Append(text, line)
  /\ isInSearch' = FALSE
  /\ isInReplace' = FALSE
  /\ blocks' = handleReplaceEnd(currentBlock, blocks)
  /\ UNCHANGED evalVars
  /\ UNCHANGED splitVars
  /\ UNCHANGED <<pc, currentBlock, patchVars, genVars>>

HandleContentLine ==
  /\ pc = "scan"
  /\ \E line \in ParserLines :
       /\ Readable(line)
       /\ LineKind(line) = "content"
       /\ text' = Append(text, line)
       /\ currentBlock' = handleContentLine(line, currentBlock, isInSearch, isInReplace)
  /\ UNCHANGED evalVars
  /\ UNCHANGED splitVars
  /\ UNCHANGED <<pc, isInSearch, isInReplace, blocks, patchVars, genVars>>

NextParser ==
  \/ HandleSearchStart
  \/ HandleSeparator
  \/ HandleReplaceEnd
  \/ HandleContentLine

SpecParser == InitParser /\ [][NextParser]_vars

\* parseSearchReplaceBlocks as one pass over the lines from line k on.
RECURSIVE scanLines(_, _, _)
scanLines(lines, k, state) ==
  IF k > Len(lines) THEN state.blocks
  ELSE
    LET kind == LineKind(lines[k])
    IN  scanLines(lines, k + 1,
          CASE kind = "open" ->
                 [state EXCEPT !.isInSearch = TRUE, !.isInReplace = FALSE,
                               !.currentBlock = [search |-> << >>, replace |-> << >>]]
            [] kind = "divider" ->
                 [state EXCEPT !.isInSearch = FALSE, !.isInReplace = TRUE]
            [] kind = "close" ->
                 [state EXCEPT !.isInSearch = FALSE, !.isInReplace = FALSE,
                               !.blocks = handleReplaceEnd(state.currentBlock, state.blocks)]
            [] OTHER ->
                 [state EXCEPT !.currentBlock =
                    handleContentLine(lines[k], state.currentBlock,
                                      state.isInSearch, state.isInReplace)])

parseSearchReplaceBlocks(txt) ==
  scanLines(Split(txt), 1,
            [isInSearch |-> FALSE, isInReplace |-> FALSE,
             currentBlock |-> [search |-> << >>, replace |-> << >>],
             blocks |-> << >>])

----------------------------------------------------------------------------
(* The editing entry points on their own: a list of edit blocks, a list of *)
(* SectionChanges, and a split followed by a reconstruction without edits. *)

SectionNames == { <<"s">>, <<"t">> }

\* A header line without its closing bracket.
HeaderOpen == <<"[", "u", "v">>

\* The documents of the patch engine, those of two sections, and those that
\* open with HeaderOpen.
\* Documents of two sections with one line each.
TwoSectionDocuments ==
  {Join(<<HeaderS, x, HeaderT, y>>) : x \in DocLines \ {HeaderS, HeaderT},
                                       y \in DocLines \ {HeaderS, HeaderT}}

EditDocuments ==
  Documents \cup TwoSectionDocuments \cup
    {Join(<<HeaderOpen>> \o ls) : ls \in SeqsUpTo(DocLines, MaxDocLines - 1)}

\* Blocks of a two-block list: a header of either name, repeated by the
\* replace text, with at most one parameter line on each side.
PairBlocks ==
  { [search |-> Join(<<h>> \o sp), replace |-> Join(<<h>> \o rp)] :
      h \in {HeaderS, HeaderT},
      sp \in SeqsUpTo(SearchParamLines, 1),
      rp \in SeqsUpTo(ReplaceParamLines, 1) }

\* The lists of blocks applied: one block, or a block that names the first
\* section followed by a block that names either.
EditBlockLists ==
  {<<b>> : b \in PairBlocks} \cup
    {<<b, c>> : b \in {x \in PairBlocks : StartsWith(x.search, HeaderS)},
                c \in PairBlocks}

ChangeLines == { <<"a", "=", "5">>, <<"c", "=", "4">> }

\* The parameter maps a SectionChange can carry: every sequence of change
\* lines with distinct names, keyed the way the parser keys them.
ParameterMaps ==
  { [i \in 1..Len(ls) |-> [name |-> KeyOf(ls[i]), line |-> ls[i]]] :
      ls \in {q \in SeqsUpTo(ChangeLines, MaxParams) :
                \A i, j \in 1..Len(q) : q[i] = q[j] => i = j} }

Changes ==
  { [sectionName |-> n, parameters |-> m] : n \in SectionNames, m \in ParameterMaps }

\* The lists of changes applied: none, one change, or two changes of at
\* most one parameter each, in either order.
ChangeLists ==
  {<< >>} \cup {<<c>> : c \in Changes} \cup
    {<<c, d>> : c, d \in {x \in Changes : Len(x.parameters) <= 1}}

InitEdit ==
  /\ pc = "edit"
  /\ ParserIdle
  /\ SplitIdle
  /\ EvalIdle
  /\ GenIdle
  /\ content \in EditDocuments
  /\ search = Empty
  /\ replace = Empty
  /\ fuzzyResult = Empty
  /\ result = Empty

EditBySearchReplace ==
  /\ pc = "edit"
  /\ \E list \in EditBlockLists :
       LET out == applySearchReplaceBlocks(content, list, 1)
       IN  /\ blocks' = list
           /\ pc' = IF out.threw THEN "threw" ELSE "patched"
           /\ result' = out.text
  /\ UNCHANGED evalVars
  /\ UNCHANGED splitVars
  /\ UNCHANGED <<content, search, replace, fuzzyResult>>
  /\ UNCHANGED <<text, isInSearch, isInReplace, currentBlock, genVars>>

EditByDirectChanges ==
  /\ pc = "edit"
  /\ \E list \in ChangeLists :
       LET out == applyDirectSectionChanges(content, list)
       IN  /\ sectionChanges' = list
           /\ pc' = IF out.threw THEN "threw" ELSE "changed"
           /\ result' = out.text
  /\ UNCHANGED evalVars
  /\ UNCHANGED splitVars
  /\ UNCHANGED <<content, search, replace, fuzzyResult, parserVars>>
  /\ UNCHANGED <<sectionNames, responseText, includedSections, excludedSections,
                 sectionOrders>>

RoundTrip ==
  /\ pc = "edit"
  /\ \E names \in SUBSET SectionNames :
       LET split == splitPP3ContentBySections(content, names)
       IN  /\ sectionNames' = names
           /\ includedSections' = split.includedSections
           /\ excludedSections' = split.excludedSections
           /\ sectionOrders' = split.sectionOrders
           /\ result' = reconstructPP3Content(split.sectionOrders, << >>,
                          split.includedSections, split.excludedSections)
  /\ pc' = "rebuilt"
  /\ UNCHANGED evalVars
  /\ UNCHANGED splitVars
  /\ UNCHANGED <<content, search, replace, fuzzyResult, parserVars>>
  /\ UNCHANGED <<responseText, sectionChanges>>

NextEdit ==
  \/ EditBySearchReplace
  \/ EditByDirectChanges
  \/ RoundTrip

SpecEdit == InitEdit /\ [][NextEdit]_vars

----------------------------------------------------------------------------
(* processAIGeneration (ai-generation/ai-processor.ts): split the base     *)
(* profile, receive the response, parse it and apply what it holds.        *)

\* s.replaceAll(p, "")
RECURSIVE RemoveAll(_, _)
RemoveAll(s, p) ==
  LET k == IndexOf(s, p)
  IN  IF k = 0 THEN s
      ELSE SubSeq(s, 1, k - 1) \o RemoveAll(SubSeq(s, k + Len(p), Len(s)), p)

\* The responses explored: SectionChanges bare and fenced, an edit block
\* bare and fenced, an edit block that names its section, an edit block
\* whose search side is one empty line, an edit block that names its section
\* and replaces one parameter by another, a SectionChange whose parameter
\* name opens a bracket, and prose.
Responses ==
  { Join(<<HeaderT, <<"a", "=", "5">>>>),
    Join(<<Fence, HeaderS, <<"a", "=", "5">>, <<"c", "=", "4">>, Fence>>),
    Join(<<OpenMarker, <<" ", "a", "=", "1">>, DividerMarker,
           <<" ", "a", "=", "3">>, CloseMarker>>),
    Join(<<Fence, OpenMarker, <<"a", "=", "1">>, DividerMarker,
           <<"a", "=", "3">>, CloseMarker, Fence>>),
    Join(<<OpenMarker, HeaderS, <<"a", "=", "1">>, DividerMarker,
           HeaderS, <<"a", "=", "3">>, CloseMarker>>),
    Join(<<OpenMarker, Empty, DividerMarker, <<"a", "=", "3">>, CloseMarker>>),
    Join(<<OpenMarker, HeaderS, <<"b", "=", "2">>, DividerMarker,
           HeaderS, <<"c", "=", "4">>, CloseMarker>>),
    Join(<<HeaderS, <<"[", "x", "=", "1">>>>),
    <<"y">> }

InitGen ==
  /\ pc = "split"
  /\ ParserIdle
  /\ SplitIdle
  /\ EvalIdle
  /\ content \in EditDocuments
  /\ search = Empty
  /\ replace = Empty
  /\ fuzzyResult = Empty
  /\ result = Empty
  /\ sectionNames \in SUBSET SectionNames
  /\ responseText = Empty
  /\ includedSections = << >>
  /\ excludedSections = << >>
  /\ sectionOrders = << >>
  /\ sectionChanges = << >>

SplitBase ==
  /\ pc = "split"
  /\ LET split == splitPP3ContentBySections(content, sectionNames)
     IN  /\ includedSections' = split.includedSections
         /\ excludedSections' = split.excludedSections
         /\ sectionOrders' = split.sectionOrders
  /\ pc' = "generate"
  /\ UNCHANGED evalVars
  /\ UNCHANGED splitVars
  /\ UNCHANGED <<patchVars, parserVars, sectionNames, responseText, sectionChanges>>

GenerateAIResponse ==
  /\ pc = "generate"
  /\ responseText' \in Responses
  /\ sectionChanges' = parseDirectSectionChanges(responseText')
  /\ pc' = "parsed"
  /\ UNCHANGED evalVars
  /\ UNCHANGED splitVars
  /\ UNCHANGED <<patchVars, parserVars>>
  /\ UNCHANGED <<sectionNames, includedSections, excludedSections, sectionOrders>>

ApplyDirectChanges ==
  /\ pc = "parsed"
  /\ Len(sectionChanges) > 0
  /\ LET out == applyDirectSectionChanges(content, sectionChanges)
     IN  /\ pc' = IF out.threw THEN "threw" ELSE "done"
         /\ result' = out.text
  /\ UNCHANGED evalVars
  /\ UNCHANGED splitVars
  /\ UNCHANGED <<content, search, replace, fuzzyResult, parserVars, genVars>>

NoValidChanges ==
  /\ pc = "parsed"
  /\ Len(sectionChanges) = 0
  /\ Len(parseSearchReplaceBlocks(RemoveAll(responseText, Fence))) = 0
  /\ pc' = "no valid changes"
  /\ UNCHANGED evalVars
  /\ UNCHANGED splitVars
  /\ UNCHANGED <<patchVars, parserVars, genVars>>

ApplyBlocksAndReconstruct ==
  /\ pc = "parsed"
  /\ Len(sectionChanges) = 0
  /\ LET searchReplaceBlocks == parseSearchReplaceBlocks(RemoveAll(responseText, Fence))
         toBeEdited == Join(includedSections)
         out == applySearchReplaceBlocks(toBeEdited, searchReplaceBlocks, 1)
         editedSections == splitContentBySections(out.text).sections
     IN  /\ Len(searchReplaceBlocks) > 0
         /\ blocks' = searchReplaceBlocks
         /\ pc' = IF out.threw THEN "threw" ELSE "done"
         /\ result' = IF out.threw THEN Empty
                      ELSE reconstructPP3Content(sectionOrders, editedSections,
                                                 includedSections, excludedSections)
  /\ UNCHANGED evalVars
  /\ UNCHANGED splitVars
  /\ UNCHANGED <<content, search, replace, fuzzyResult>>
  /\ UNCHANGED <<text, isInSearch, isInReplace, currentBlock, genVars>>

NextGen ==
  \/ SplitBase
  \/ GenerateAIResponse
  \/ ApplyDirectChanges
  \/ NoValidChanges
  \/ ApplyBlocksAndReconstruct

SpecGen == InitGen /\ [][NextGen]_vars

----------------------------------------------------------------------------
(* parseDirectSectionChanges on its own, over every text of a few lines.   *)

\* Lines of a response: two headers, parameter lines (one with "=" in its
\* value, one indented, one without a name), an empty line, the fence and
\* two fences on one line.
DirectLines ==
  { HeaderS, HeaderT,
    <<" ", "a", "=", "5">>,
    <<"a", "=", "6", "=", "7">>,
    <<"=", "5">>,
    Empty,
    Fence,
    Fence \o Fence }

DirectTexts == {Join(ls) : ls \in SeqsUpTo(DirectLines, MaxDirectLines)}

InitDirect ==
  /\ pc = "respond"
  /\ ParserIdle
  /\ SplitIdle
  /\ EvalIdle
  /\ PatchIdle
  /\ sectionNames = {}
  /\ responseText \in DirectTexts
  /\ includedSections = << >>
  /\ excludedSections = << >>
  /\ sectionOrders = << >>
  /\ sectionChanges = << >>

ParseDirectSectionChanges ==
  /\ pc = "respond"
  /\ sectionChanges' = parseDirectSectionChanges(responseText)
  /\ pc' = "scanned"
  /\ UNCHANGED evalVars
  /\ UNCHANGED splitVars
  /\ UNCHANGED <<patchVars, parserVars>>
  /\ UNCHANGED <<sectionNames, responseText, includedSections, excludedSections,
                 sectionOrders>>

NextDirect == ParseDirectSectionChanges

SpecDirect == InitDirect /\ [][NextDirect]_vars

----------------------------------------------------------------------------
(* splitPP3ContentBySections line by line: the loop of                     *)
(* splitContentBySections with the callback that fills the two lists.      *)

\* Lines of a document: two headers, an indented header followed by a
\* space, an indented parameter line followed by a space, an empty line and
\* a line of one space.
SplitLines ==
  { HeaderS, HeaderT,
    <<" ", "[", "s", "]", " ">>,
    <<" ", "a", "=", "1", " ">>,
    Empty,
    <<" ">> }

SplitDocuments == {Join(ls) : ls \in SeqsUpTo(SplitLines, MaxSplitLines)}

\* The section text finalizePreviousSection stores and hands on.
trimmedSection_Untrimmed(section) == section

trimmedSection(section) == Trim(section)

\* The arguments of one call of processSection.
processSectionCall_IndexFromOne(section, sectionName, index) ==
  [section |-> section, sectionName |-> sectionName, index |-> index + 1]

processSectionCall(section, sectionName, index) ==
  [section |-> section, sectionName |-> sectionName, index |-> index]

\* sectionNames.includes(sectionName) in the callback of
\* splitPP3ContentBySections.
isIncluded_Always(names, sectionName) == TRUE

isIncluded(names, sectionName) == sectionName \in names

InitSplit ==
  /\ pc = "enter"
  /\ ParserIdle
  /\ SplitIdle
  /\ EvalIdle
  /\ content \in SplitDocuments
  /\ search = Empty
  /\ replace = Empty
  /\ fuzzyResult = Empty
  /\ result = Empty
  /\ sectionNames \in SUBSET SectionNames
  /\ responseText = Empty
  /\ includedSections = << >>
  /\ excludedSections = << >>
  /\ sectionOrders = << >>
  /\ sectionChanges = << >>

\* if (!content.trim()) return { sections: [], sectionOrders: [] }
ReturnEmpty ==
  /\ pc = "enter"
  /\ Trim(content) = Empty
  /\ pc' = "returned"
  /\ UNCHANGED evalVars
  /\ UNCHANGED <<patchVars, parserVars, genVars, splitVars>>

\* content.split("\n") and createSectionParseState()
EnterLoop ==
  /\ pc = "enter"
  /\ Trim(content) # Empty
  /\ pc' = "scan"
  /\ lineIndex' = 1
  /\ currentSection' = Empty
  /\ currentSectionName' = Empty
  /\ sectionIndex' = 0
  /\ inSection' = FALSE
  /\ UNCHANGED evalVars
  /\ UNCHANGED <<sections, processed>>
  /\ UNCHANGED <<patchVars, parserVars, genVars>>

\* finalizePreviousSection with the callback of splitPP3ContentBySections.
FinalizePreviousSection ==
  IF inSection /\ currentSection # Empty
  THEN LET section == trimmedSection(currentSection)
       IN  /\ sections' = Append(sections, section)
           /\ processed' =
                Append(processed,
                       processSectionCall(section, currentSectionName, sectionIndex))
           /\ includedSections' =
                IF isIncluded(sectionNames, currentSectionName)
                THEN Append(includedSections, section) ELSE includedSections
           /\ excludedSections' =
                IF isIncluded(sectionNames, currentSectionName)
                THEN excludedSections ELSE Append(excludedSections, section)
           /\ sectionIndex' = sectionIndex + 1
  ELSE UNCHANGED <<sections, processed, includedSections, excludedSections,
                   sectionIndex>>

\* A line that starts with "[" once trimmed: the section before it is
\* finalized and startNewSection opens the next.
StartNewSection ==
  /\ pc = "scan"
  /\ lineIndex <= Len(Split(content))
  /\ LET line == Split(content)[lineIndex]
     IN  /\ StartsWithBracket(line)
         /\ FinalizePreviousSection
         /\ currentSection' = line
         /\ currentSectionName' = SliceInner(Trim(line))
         /\ sectionOrders' = Append(sectionOrders, SliceInner(Trim(line)))
         /\ inSection' = TRUE
  /\ lineIndex' = lineIndex + 1
  /\ UNCHANGED evalVars
  /\ UNCHANGED <<pc, patchVars, parserVars, sectionNames, responseText, sectionChanges>>

\* Any other line: handleSectionLine.
HandleSectionLine ==
  /\ pc = "scan"
  /\ lineIndex <= Len(Split(content))
  /\ LET line == Split(content)[lineIndex]
     IN  /\ ~StartsWithBracket(line)
         /\ currentSection' = IF inSection THEN currentSection \o <<NL>> \o line
                              ELSE currentSection
  /\ lineIndex' = lineIndex + 1
  /\ UNCHANGED evalVars
  /\ UNCHANGED <<sections, currentSectionName, sectionIndex, inSection, processed>>
  /\ UNCHANGED <<pc, patchVars, parserVars, genVars>>

\* After the last line: the open section is finalized and the lists returned.
ReturnSections ==
  /\ pc = "scan"
  /\ lineIndex > Len(Split(content))
  /\ FinalizePreviousSection
  /\ pc' = "returned"
  /\ UNCHANGED evalVars
  /\ UNCHANGED <<lineIndex, currentSection, currentSectionName, inSection>>
  /\ UNCHANGED <<patchVars, parserVars, sectionNames, responseText, sectionOrders,
                 sectionChanges>>

NextSplit ==
  \/ ReturnEmpty
  \/ EnterLoop
  \/ StartNewSection
  \/ HandleSectionLine
  \/ ReturnSections

SpecSplit == InitSplit /\ [][NextSplit]_vars

----------------------------------------------------------------------------
(* Best-generation selection (ai-generation/ai-processor.ts).              *)

\* What /i makes of the letters of the tag.
UpperCaseOf(c) ==
  CASE c = "a" -> "A" [] c = "b" -> "B" [] c = "e" -> "E" [] c = "g" -> "G"
    [] c = "i" -> "I" [] c = "n" -> "N" [] c = "o" -> "O" [] c = "r" -> "R"
    [] c = "s" -> "S" [] c = "t" -> "T" [] OTHER -> c

BestGenerationTag ==
  <<"B", "E", "S", "T", "_", "G", "E", "N", "E", "R", "A", "T", "I", "O", "N", ":">>

DigitValue(c) ==
  CASE c = "0" -> 0 [] c = "1" -> 1 [] c = "2" -> 2 [] c = "3" -> 3 [] c = "4" -> 4
    [] c = "5" -> 5 [] c = "6" -> 6 [] c = "7" -> 7 [] c = "8" -> 8 [] OTHER -> 9

\* Number.parseInt(digits, 10) on a run of digits.
RECURSIVE ParseInt(_)
ParseInt(digits) ==
  IF Len(digits) = 0 THEN 0
  ELSE 10 * ParseInt(SubSeq(digits, 1, Len(digits) - 1))
         + DigitValue(digits[Len(digits)])

\* /BEST_GENERATION:\s*(\d+)/i.exec(txt): the leftmost place where the tag,
\* in any case, is followed by optional whitespace and at least one digit;
\* the group is the whole run of digits.
BestGenerationMatch(txt) ==
  LET upper == [i \in 1..Len(txt) |-> UpperCaseOf(txt[i])]
      n == Len(BestGenerationTag)
      digitsFrom(p) ==
        LET solid == {i \in p..Len(txt) : ~IsSpace(txt[i])}
            d == IF solid = {} THEN Len(txt) + 1 ELSE MinOf(solid)
            stops == {i \in d..Len(txt) : ~IsDigit(txt[i])}
            e == IF stops = {} THEN Len(txt) ELSE MinOf(stops) - 1
        IN  SubSeq(txt, d, e)
      places == {p \in 1..Len(txt) :
                   /\ p + n - 1 <= Len(txt)
                   /\ SubSeq(upper, p, p + n - 1) = BestGenerationTag
                   /\ Len(digitsFrom(p + n)) > 0}
  IN  IF places = {} THEN [matched |-> FALSE, displayIndex |-> 0]
      ELSE [matched |-> TRUE,
            displayIndex |-> ParseInt(digitsFrom(MinOf(places) + n))]

IsSuccess(generation) == generation.success

\* results.findIndex(result => result.success): 0-based, -1 when none.
FindFirstSuccessful(results) ==
  LET hits == {i \in 1..Len(results) : results[i].success}
  IN  IF hits = {} THEN -1 ELSE MinOf(hits) - 1

parseBestGenerationIndex(txt, results) ==
  LET match == BestGenerationMatch(txt)
      successful == SelectSeq(results, IsSuccess)
      first == MaxOf({FindFirstSuccessful(results), 0})
  IN  IF ~match.matched THEN first
      ELSE IF match.displayIndex \in 1..Len(successful)
      THEN successful[match.displayIndex].generationIndex
      ELSE first

\* attemptEvaluationWithModel once generateText has answered with txt:
\* gens are the results of the caller, results the successful ones handed
\* on.  Reading successfulResults[bestIndex] beyond the list throws inside
\* the try, and the catch returns null.
attemptEvaluationWithModel(txt, results, gens) ==
  LET best == parseBestGenerationIndex(txt, results)
  IN  IF best + 1 > Len(results) THEN [answered |-> FALSE, bestIndex |-> 0]
      ELSE LET chosen == results[best + 1].generationIndex
               hits == {i \in 1..Len(gens) : gens[i].generationIndex = chosen}
           IN  [answered |-> TRUE,
                bestIndex |-> IF hits = {} THEN best ELSE MinOf(hits) - 1]

\* One generation: it succeeded or failed, and the evaluation image of a
\* successful one can be read or not.
GenerationOutcomes ==
  { [success |-> FALSE, readable |-> FALSE],
    [success |-> TRUE, readable |-> TRUE],
    [success |-> TRUE, readable |-> FALSE] }

\* The results of up to MaxGenerations generations, in generation order.
GenerationRuns ==
  { [i \in 1..Len(run) |->
       [generationIndex |-> i - 1, success |-> run[i].success,
        readable |-> run[i].readable]] :
      run \in SeqsUpTo(GenerationOutcomes, MaxGenerations) }

NumberText(k) ==
  <<CASE k = 0 -> "0" [] k = 1 -> "1" [] k = 2 -> "2" [] k = 3 -> "3" [] k = 4 -> "4"
      [] k = 5 -> "5" [] k = 6 -> "6" [] k = 7 -> "7" [] k = 8 -> "8" [] OTHER -> "9">>

\* The answers of an evaluation model: the tag with every number from 0 to
\* one more than the generations, with a number of two digits, in lower
\* case without a space, without a number, and prose without the tag.
EvaluationResponses ==
  { BestGenerationTag \o <<" ">> \o NumberText(k) : k \in 0..(MaxGenerations + 1) }
    \cup
  { BestGenerationTag \o <<" ", "1", "2">>,
    <<"b", "e", "s", "t", "_", "g", "e", "n", "e", "r", "a", "t", "i", "o", "n",
      ":", "2", ".">>,
    BestGenerationTag \o <<" ", "x">>,
    <<"2", " ", "i", "s", " ", "b", "e", "s", "t">> }

InitEval ==
  /\ pc = "evaluate"
  /\ ParserIdle
  /\ SplitIdle
  /\ PatchIdle
  /\ GenIdle
  /\ generationResults \in GenerationRuns
  /\ successfulResults = << >>
  /\ modelCount \in 1..MaxModels
  /\ modelIndex = 0
  /\ bestIndex = 0

\* generationResults.filter(result => result.success), as positions.
SuccessfulPositions ==
  LET hits == {i \in 1..Len(generationResults) : generationResults[i].success}
  IN  [k \in 1..Cardinality(hits) |->
         CHOOSE i \in hits : Cardinality({x \in hits : x <= i}) = k]

\* The results successfulResults refers to, as they are now.
SuccessfulResultsNow ==
  [k \in 1..Len(successfulResults) |-> generationResults[successfulResults[k]]]

\* No generation succeeded: evaluateGenerations throws.
NoSuccessfulGenerations ==
  /\ pc = "evaluate"
  /\ Len(SuccessfulPositions) = 0
  /\ pc' = "threw"
  /\ UNCHANGED <<patchVars, parserVars, genVars, splitVars, evalVars>>

\* One generation succeeded: handleSingleGeneration returns its place.
HandleSingleGeneration ==
  /\ pc = "evaluate"
  /\ Len(SuccessfulPositions) = 1
  /\ successfulResults' = SuccessfulPositions
  /\ bestIndex' = SuccessfulPositions[1] - 1
  /\ pc' = "single"
  /\ UNCHANGED <<generationResults, modelCount, modelIndex>>
  /\ UNCHANGED <<patchVars, parserVars, genVars, splitVars>>

\* Two or more succeeded: prepareImageContents reads the evaluation images
\* and marks a generation whose image it cannot read as failed.
PrepareImageContents ==
  /\ pc = "evaluate"
  /\ Len(SuccessfulPositions) >= 2
  /\ successfulResults' = SuccessfulPositions
  /\ generationResults' =
       [i \in 1..Len(generationResults) |->
          [generationResults[i] EXCEPT
             !.success = generationResults[i].success /\ generationResults[i].readable]]
  /\ modelIndex' = 0
  /\ pc' = "attempt"
  /\ UNCHANGED <<modelCount, bestIndex>>
  /\ UNCHANGED <<patchVars, parserVars, genVars, splitVars>>

\* The current model answers; the answer selects a generation, or reading
\* the selection throws and the next model is tried.
AttemptEvaluationWithModel ==
  /\ pc = "attempt"
  /\ modelIndex < modelCount
  /\ \E txt \in EvaluationResponses :
       LET attempt == attemptEvaluationWithModel(txt, SuccessfulResultsNow,
                                                 generationResults)
       IN  /\ responseText' = txt
           /\ IF attempt.answered
              THEN /\ bestIndex' = attempt.bestIndex
                   /\ pc' = "evaluated"
                   /\ UNCHANGED modelIndex
              ELSE /\ modelIndex' = modelIndex + 1
                   /\ UNCHANGED <<pc, bestIndex>>
  /\ UNCHANGED <<generationResults, successfulResults, modelCount>>
  /\ UNCHANGED <<patchVars, parserVars, splitVars>>
  /\ UNCHANGED <<sectionNames, includedSections, excludedSections, sectionOrders,
                 sectionChanges>>

\* generateText throws for the current model: the next model is tried.
ModelFails ==
  /\ pc = "attempt"
  /\ modelIndex < modelCount
  /\ modelIndex' = modelIndex + 1
  /\ UNCHANGED <<pc, generationResults, successfulResults, modelCount, bestIndex>>
  /\ UNCHANGED <<patchVars, parserVars, genVars, splitVars>>

\* Every model failed: handleAllModelsFailed.
HandleAllModelsFailed ==
  /\ pc = "attempt"
  /\ modelIndex >= modelCount
  /\ bestIndex' = MaxOf({FindFirstSuccessful(generationResults), 0})
  /\ pc' = "fallback"
  /\ UNCHANGED <<generationResults, successfulResults, modelCount, modelIndex>>
  /\ UNCHANGED <<patchVars, parserVars, genVars, splitVars>>

NextEval ==
  \/ NoSuccessfulGenerations
  \/ HandleSingleGeneration
  \/ PrepareImageContents
  \/ AttemptEvaluationWithModel
  \/ ModelFails
  \/ HandleAllModelsFailed

SpecEval == InitEval /\ [][NextEval]_vars

----------------------------------------------------------------------------
(* Properties of the dialect-A parser, read off the state after each line. *)

LinesOfKind(kind) == {i \in 1..Len(text) : LineKind(text[i]) = kind}

\* C8: every emitted block has a non-empty search string and a non-empty
\* replace string.
C8_BlocksNonEmpty ==
  \A i \in 1..Len(blocks) :
    blocks[i].search # Empty /\ blocks[i].replace # Empty

\* The close-marker lines that end a complete sequence: since the previous
\* close-marker (or the start of the text) an open-marker and then a
\* divider were read.
CompleteCloses ==
  {c \in LinesOfKind("close") :
     \E o \in LinesOfKind("open"), d \in LinesOfKind("divider") :
       /\ o < d
       /\ d < c
       /\ \A k \in LinesOfKind("close") : ~(o < k /\ k < c)}

\* C9: blocks are emitted only by close-markers that end a complete
\* open-marker, divider, close-marker sequence, so there are never more
\* blocks than such close-markers nor more blocks than open-marker lines.
C9_OnlyCompleteSequencesEmit ==
  /\ Len(blocks) <= Cardinality(CompleteCloses)
  /\ Len(blocks) <= Cardinality(LinesOfKind("open"))

\* C10: for a text made of well-formed blocks the parser returns one block
\* per close-marker, in the order of the close-markers, whose search is the
\* lines between the open-marker and the divider and whose replace is the
\* lines between the divider and the close-marker, joined with a newline.
C10_WellFormedBlocksInOrder ==
  BlockShape(text) = "idle" =>
    LET closes == LinesOfKind("close")
        closeAt(k) == CHOOSE c \in closes : Cardinality({x \in closes : x <= c}) = k
        openOf(c) == MaxOf({o \in LinesOfKind("open") : o < c})
        dividerOf(c) == MaxOf({d \in LinesOfKind("divider") : d < c})
    IN  /\ Len(blocks) = Cardinality(closes)
        /\ \A k \in 1..Len(blocks) :
             /\ blocks[k].search =
                  Join(SubSeq(text, openOf(closeAt(k)) + 1, dividerOf(closeAt(k)) - 1))
             /\ blocks[k].replace =
                  Join(SubSeq(text, dividerOf(closeAt(k)) + 1, closeAt(k) - 1))

\* C10 witness: a text of two well-formed blocks has been read, the blocks
\* differ, and the first keeps the indentation of its search line.
C10_Witness ==
  /\ BlockShape(text) = "idle"
  /\ Len(blocks) = 2
  /\ blocks[1] # blocks[2]
  /\ blocks[1].search = <<" ", "y">>
  /\ blocks[2].search = Empty

----------------------------------------------------------------------------
(* Properties of the patch engine, read off the state after one block.     *)

\* The header line the search text targets: its first line that starts
\* with "[" once trimmed (Empty when it has none).
TargetHeader(srch) ==
  LET hs == HeaderLines(Split(Trim(srch)))
  IN  IF Len(hs) = 0 THEN Empty ELSE Trim(hs[1])

HasHeader(srch) == Len(HeaderLines(Split(Trim(srch)))) > 0

HeaderInDocument(doc, srch) ==
  LET lines == Split(doc)
      header == TargetHeader(srch)
  IN  \E i \in 1..Len(lines) : Trim(lines[i]) = header

ParamCount(s) == Len(SelectSeq(Split(Trim(s)), IsParameterText))

\* The block takes the line-skipping path: its header is a line of the
\* document and both texts list the same number of parameter lines.
LineSkipping ==
  /\ pc = "done"
  /\ HasHeader(search)
  /\ HeaderInDocument(content, search)
  /\ ParamCount(search) = ParamCount(replace)

\* C1: on the line-skipping path applyFuzzySearchReplace keeps the number of
\* lines, and a line differs from the document's line at the same position
\* only if it lies after the first line equal to the target header, before
\* the next well-formed header line, is not blank, and has the key of one
\* of the search text's parameter lines.
C1_LineSkippingFrame ==
  LineSkipping =>
    LET doc == Split(content)
        out == Split(fuzzyResult)
        header == TargetHeader(search)
        h == MinOf({i \in 1..Len(doc) : Trim(doc[i]) = header})
        sp == SelectSeq(Split(Trim(search)), IsParameterText)
        keys == {KeyOf(Trim(sp[j])) : j \in 1..Len(sp)}
    IN  /\ Len(out) = Len(doc)
        /\ \A i \in 1..Len(doc) :
             out[i] # doc[i] =>
               /\ i > h
               /\ \A j \in (h + 1)..i : ~IsWellFormedHeader(Trim(doc[j]))
               /\ Trim(doc[i]) # Empty
               /\ KeyOf(Trim(doc[i])) \in keys

\* C1 witness: inside the target section one listed line is rewritten and
\* one unlisted parameter line stays as it was.
C1_Witness ==
  /\ LineSkipping
  /\ LET doc == Split(content)
         out == Split(fuzzyResult)
         sp == SelectSeq(Split(Trim(search)), IsParameterText)
         keys == {KeyOf(Trim(sp[j])) : j \in 1..Len(sp)}
     IN  \E i, j \in 2..Len(doc) :
           /\ Trim(doc[1]) = TargetHeader(search)
           /\ out[i] # doc[i]
           /\ Trim(doc[j]) # Empty
           /\ KeyOf(Trim(doc[j])) \notin keys
           /\ ~StartsWithBracket(doc[j])
           /\ out[j] = doc[j]

\* C2: on the line-skipping path every rewritten line is the document
\* line's own leading whitespace followed by a trimmed parameter line of the
\* replace text, so every line keeps the document's indentation.
C2_IndentationPreserved ==
  LineSkipping =>
    LET doc == Split(content)
        out == Split(fuzzyResult)
        rp == SelectSeq(Split(Trim(replace)), IsParameterText)
    IN  \A i \in 1..Len(doc) :
          /\ i <= Len(out)
          /\ Indentation(out[i]) = Indentation(doc[i])
          /\ out[i] # doc[i] =>
               \E j \in 1..Len(rp) : out[i] = Indentation(doc[i]) \o Trim(rp[j])

\* C2 witness: an indented document line is rewritten from a replace line
\* that carries a different indentation.
C2_Witness ==
  /\ LineSkipping
  /\ \E i \in 1..Len(Split(content)) :
       /\ Split(fuzzyResult)[i] # Split(content)[i]
       /\ Indentation(Split(content)[i]) = <<" ">>
       /\ \E j \in 1..Len(Split(replace)) :
            /\ Indentation(Split(replace)[j]) = <<" ", " ">>
            /\ Split(fuzzyResult)[i] = <<" ">> \o Trim(Split(replace)[j])

\* The search text names a header that is no line of the document.
MissingSection ==
  /\ pc = "done"
  /\ HasHeader(search)
  /\ ~HeaderInDocument(content, search)

\* C6 as stated: a block whose header is no line of the document leaves the
\* document unchanged, through applyFuzzySearchReplace and through the
\* driver applySearchReplaceBlocks.
C6_MissingSectionNoOp ==
  MissingSection => fuzzyResult = content /\ result = content

\* C6 amended: applyFuzzySearchReplace returns the document unchanged, and
\* the driver returns it unchanged when the trimmed search text does not
\* occur verbatim in the document.
C6_MissingSectionAmended ==
  MissingSection =>
    /\ fuzzyResult = content
    /\ IndexOf(content, Trim(search)) = 0 => result = content

\* C6 witness: the document has a section and a parameter line with the key
\* of a search parameter, but not the header the search text names; the
\* replace text differs from the search text and the document comes back
\* unchanged.
C6_Witness ==
  /\ MissingSection
  /\ Trim(search) # Trim(replace)
  /\ ParamCount(search) = ParamCount(replace)
  /\ \E i, j \in 1..Len(Split(content)) :
       /\ Split(content)[i] = HeaderT
       /\ j > i
       /\ KeyOf(Trim(Split(content)[j])) = <<"a">>
       /\ KeyOf(Split(Trim(search))[2]) = <<"a">>
  /\ fuzzyResult = content
  /\ result = content

\* Search and replace list different numbers of parameter lines.
CountMismatch ==
  /\ pc = "done"
  /\ HasHeader(search)
  /\ ParamCount(search) # ParamCount(replace)

\* C7 as stated: with a parameter-count mismatch the result of applying the
\* block equals the input document.
C7_CountMismatchUnchanged ==
  CountMismatch => fuzzyResult = content /\ result = content

\* C7 amended: with a parameter-count mismatch the result equals the input
\* document when the trimmed search text does not occur verbatim in it.
C7_CountMismatchAmended ==
  (CountMismatch /\ IndexOf(content, Trim(search)) = 0) =>
    fuzzyResult = content /\ result = content

\* C7 witness: the header is found, the search text lists one parameter
\* more than the replace text, a line of the section has the key of a search
\* parameter, and the document comes back unchanged.
C7_Witness ==
  /\ CountMismatch
  /\ HeaderInDocument(content, search)
  /\ IndexOf(content, Trim(search)) = 0
  /\ ParamCount(search) = ParamCount(replace) + 1
  /\ ParamCount(replace) > 0
  /\ \E i \in 2..Len(Split(content)) :
       /\ Split(content)[1] = HeaderS
       /\ KeyOf(Trim(Split(content)[i])) = KeyOf(Split(Trim(search))[2])
  /\ fuzzyResult = content
  /\ result = content

----------------------------------------------------------------------------
(* Properties of the whole pipeline and of the editing entry points.       *)

\* The sections of doc that carry the given name, in document order.
SectionsNamed(doc, name) ==
  LET split == splitContentBySections(doc)
  IN  SelectSeq([k \in 1..Len(split.sections) |->
                   IF split.sectionOrders[k] = name THEN split.sections[k] ELSE Empty],
                IsNonEmpty)

NamesOf(doc) ==
  LET split == splitContentBySections(doc)
  IN  {split.sectionOrders[k] : k \in 1..Len(split.sectionOrders)}

IsNonBlank(line) == Trim(line) # Empty

RECURSIVE NonBlankLines(_)
NonBlankLines(sectionList) ==
  IF Len(sectionList) = 0 THEN 0
  ELSE Len(SelectSeq(Split(Head(sectionList)), IsNonBlank)) + NonBlankLines(Tail(sectionList))

\* C3: when processAIGeneration returns, every section of the base profile
\* whose name is not on the allow-list stands in the returned document with
\* exactly the lines it has in the base profile.
C3_ExcludedSectionsVerbatim ==
  pc = "done" =>
    \A name \in NamesOf(content) \ sectionNames :
      SectionsNamed(result, name) = SectionsNamed(content, name)

\* C4: after a list of edit blocks or a list of SectionChanges is applied,
\* every section header of the input is still present and no section has
\* fewer non-blank lines than it had in the input.
C4_EditsNeverDelete ==
  pc \in {"patched", "changed"} =>
    \A name \in NamesOf(content) :
      /\ Len(SectionsNamed(result, name)) >= Len(SectionsNamed(content, name))
      /\ NonBlankLines(SectionsNamed(result, name))
           >= NonBlankLines(SectionsNamed(content, name))

\* C5: splitting a document under any allow-list and reconstructing it with
\* an empty edited list yields the same sections in the same order with the
\* same lines per section, up to the whitespace trimmed off each section.
C5_RoundTripWithoutEdits ==
  pc = "rebuilt" =>
    /\ splitContentBySections(result).sectionOrders
         = splitContentBySections(content).sectionOrders
    /\ splitContentBySections(result).sections
         = splitContentBySections(content).sections

----------------------------------------------------------------------------
(* Properties of parseDirectSectionChanges, read off the scanned text.     *)

ScannedLines == Split(extractContentToProcess(responseText))

TrimmedAt(i) == Trim(ScannedLines[i])

HasEquals(line) == \E i \in 1..Len(line) : line[i] = "="

HeadersScanned == {i \in 1..Len(ScannedLines) : IsWellFormedHeader(TrimmedAt(i))}

\* The k-th smallest element of a set of numbers.
NthOf(S, k) == CHOOSE h \in S : Cardinality({x \in S : x <= h}) = k

\* The lines with "=" that stand under the k-th header and before the next;
\* with named set, only those with text before the "=".
ParameterLinesUnder(k, named) ==
  {i \in 1..Len(ScannedLines) :
     /\ i > NthOf(HeadersScanned, k)
     /\ k < Cardinality(HeadersScanned) => i < NthOf(HeadersScanned, k + 1)
     /\ HasEquals(TrimmedAt(i))
     /\ named => KeyOf(TrimmedAt(i)) # Empty}

\* The changes are the headers in source order, each with one entry per key
\* of its parameter lines, the entry holding the last trimmed line of the key.
ChangesMirrorScan(named) ==
  /\ Len(sectionChanges) = Cardinality(HeadersScanned)
  /\ \A k \in 1..Len(sectionChanges) :
       LET under == ParameterLinesUnder(k, named)
           entries == sectionChanges[k].parameters
       IN  /\ sectionChanges[k].sectionName
                = SliceInner(TrimmedAt(NthOf(HeadersScanned, k)))
           /\ {entries[j].name : j \in 1..Len(entries)}
                = {KeyOf(TrimmedAt(i)) : i \in under}
           /\ \A j, l \in 1..Len(entries) : entries[j].name = entries[l].name => j = l
           /\ \A j \in 1..Len(entries) :
                entries[j].line
                  = TrimmedAt(MaxOf({i \in under : KeyOf(TrimmedAt(i)) = entries[j].name}))

\* C11 as stated: one SectionChange per well-formed header of the scanned
\* text in source order; every line with "=" under a header is stored under
\* the text before its first "=" with the trimmed line as value, a later
\* line of the same key overwriting; lines before the first header ignored.
C11_ChangesPerHeader ==
  pc = "scanned" => ChangesMirrorScan(FALSE)

\* C11 amended: the same, for the lines that have text before the first
\* "="; a line that starts with "=" is not stored.
C11_ChangesPerHeaderAmended ==
  pc = "scanned" => ChangesMirrorScan(TRUE)

\* Scanned: a parameter line before any header, then a header with two
\* lines of one key, the later one with "=" in its value.
C11_Witness ==
  /\ pc = "scanned"
  /\ responseText = Join(<<<<" ", "a", "=", "5">>, HeaderS, <<" ", "a", "=", "5">>,
                           <<"a", "=", "6", "=", "7">>>>)
  /\ sectionChanges =
       <<[sectionName |-> <<"s">>,
          parameters |-> <<[name |-> <<"a">>, line |-> <<"a", "=", "6", "=", "7">>]>>]>>

\* The fences of a text whose fences stand alone on their lines, one or two
\* to a line: the line number of each fence, in text order.
RECURSIVE FenceLines(_, _)
FenceLines(lines, i) ==
  IF i > Len(lines) THEN << >>
  ELSE (IF lines[i] = Fence THEN <<i>>
        ELSE IF lines[i] = Fence \o Fence THEN <<i, i>>
        ELSE << >>) \o FenceLines(lines, i + 1)

\* The fenced blocks pair the fences two by two; a block between two fences
\* of one line is empty, any other holds the lines between its fences.
FencedBlocks(txt) ==
  LET fences == FenceLines(Split(txt), 1)
  IN  [j \in 1..(Len(fences) \div 2) |->
         [empty |-> fences[2 * j - 1] = fences[2 * j],
          body |-> Trim(Join(SubSeq(Split(txt), fences[2 * j - 1] + 1,
                                    fences[2 * j] - 1)))]]

HasBody(block) == ~block.empty

BodiesOf(fenced) == [j \in 1..Len(fenced) |-> fenced[j].body]

\* C12 as stated: with at least one fenced block in the text only the
\* bodies of the fenced blocks are scanned, so headers and parameters
\* outside the fences are ignored; without one the raw text is scanned.
C12_FencedBodiesOnly ==
  pc = "scanned" =>
    LET fenced == FencedBlocks(responseText)
    IN  sectionChanges =
          processContentLines(
            Split(IF Len(fenced) > 0 THEN Join(BodiesOf(SelectSeq(fenced, HasBody)))
                  ELSE responseText), 1, << >>, << >>)

\* C12 amended: the bodies are scanned when at least one fenced block has a
\* non-empty body; a text whose fenced blocks are all empty is scanned whole.
C12_FencedBodiesOnlyAmended ==
  pc = "scanned" =>
    LET filled == SelectSeq(FencedBlocks(responseText), HasBody)
    IN  sectionChanges =
          processContentLines(
            Split(IF Len(filled) > 0 THEN Join(BodiesOf(filled)) ELSE responseText),
            1, << >>, << >>)

\* Scanned: a header outside the fences is ignored, the fenced one is kept.
C12_Witness ==
  /\ pc = "scanned"
  /\ responseText = Join(<<HeaderT, Fence, HeaderS, Fence>>)
  /\ sectionChanges = <<[sectionName |-> <<"s">>, parameters |-> << >>]>>

----------------------------------------------------------------------------
(* Properties of applyDirectSectionChanges.                                *)

\* A parameter of the given name stands in some section of doc named so: a
\* line whose text before the first "=", trimmed, is the name.
ParameterPresent(doc, section, name) ==
  \E k \in 1..Len(SectionsNamed(doc, section)) :
    \E i \in 1..Len(Split(SectionsNamed(doc, section)[k])) :
      LET line == Split(SectionsNamed(doc, section)[k])[i]
      IN  HasEquals(line) /\ Trim(KeyOf(line)) = name

\* A change that names an absent section or only absent parameters.
NamesNothing(doc, change) ==
  \/ change.sectionName \notin NamesOf(doc)
  \/ \A j \in 1..Len(change.parameters) :
       ~ParameterPresent(doc, change.sectionName, change.parameters[j].name)

\* C13: SectionChanges that name an absent section or absent parameters
\* leave every section's content unchanged, up to the whitespace trimmed
\* around sections, and add neither section nor parameter.
C13_NoOpDirectChanges ==
  (/\ pc = "changed"
   /\ Len(sectionChanges) > 0
   /\ \A k \in 1..Len(sectionChanges) : NamesNothing(content, sectionChanges[k]))
  => /\ splitContentBySections(result).sectionOrders
          = splitContentBySections(content).sectionOrders
     /\ splitContentBySections(result).sections
          = splitContentBySections(content).sections

\* The header lines of a document, trimmed, in document order.
HeaderSequence(doc) ==
  LET heads == SelectSeq(Split(doc), StartsWithBracket)
  IN  [k \in 1..Len(heads) |-> Trim(heads[k])]

\* C14: whatever the SectionChanges and their order, the sequence of section
\* headers of the output of applyDirectSectionChanges is that of the input.
C14_SectionOrderCanonical ==
  pc = "changed" => HeaderSequence(result) = HeaderSequence(content)

----------------------------------------------------------------------------
(* Properties of applySearchReplaceBlocks on a list of two blocks.         *)

\* Two blocks whose headers differ and both stand in the document.
TwoSections ==
  /\ pc = "patched"
  /\ Len(blocks) = 2
  /\ TargetHeader(blocks[1].search) # TargetHeader(blocks[2].search)
  /\ HeaderInDocument(content, blocks[1].search)
  /\ HeaderInDocument(content, blocks[2].search)

\* Every line that a block, applied alone with output alone, brings into
\* the document is a line of the result.
BringsIn(alone) ==
  LET before == Split(content)
      after == Split(result)
      lines == Split(alone)
  IN  \A i \in 1..Len(lines) :
        (\A j \in 1..Len(before) : before[j] # lines[i])
          => \E j \in 1..Len(after) : after[j] = lines[i]

\* The literal fallback leaves the block's output out as the line-skipping
\* path (or nothing, when that path does not apply) made it.
NoLiteralChange(doc, block, out) ==
  out = IF /\ HasHeader(block.search)
           /\ HeaderInDocument(doc, block.search)
           /\ ParamCount(block.search) = ParamCount(block.replace)
        THEN applyFuzzySearchReplace(doc, block.search, block.replace)
        ELSE doc

\* Two blocks compose: the result is the second block applied to the output
\* of the first; when they target two different sections of the document
\* (and, with guarded set, the literal fallback changes nothing for either
\* block in either order), both bring their lines into the result and the
\* result is the same with the blocks applied the other way round.
TwoBlocksCompose(guarded) ==
  LET first == applySearchReplaceBlock(content, blocks[1].search, blocks[1].replace)
      second == applySearchReplaceBlock(content, blocks[2].search, blocks[2].replace)
      firstThenSecond ==
        applySearchReplaceBlock(first, blocks[2].search, blocks[2].replace)
      secondThenFirst ==
        applySearchReplaceBlock(second, blocks[1].search, blocks[1].replace)
      literalFree ==
        /\ NoLiteralChange(content, blocks[1], first)
        /\ NoLiteralChange(content, blocks[2], second)
        /\ NoLiteralChange(first, blocks[2], firstThenSecond)
        /\ NoLiteralChange(second, blocks[1], secondThenFirst)
  IN  /\ result = firstThenSecond
      /\ (TwoSections /\ (guarded => literalFree))
           => /\ BringsIn(first)
              /\ BringsIn(second)
              /\ firstThenSecond = secondThenFirst

----------------------------------------------------------------------------
(* Error behaviour of the pipeline.                                        *)

\* The blocks the search/replace dialect yields for the response.
BlocksOfResponse == parseSearchReplaceBlocks(RemoveAll(responseText, Fence))

\* C16: applying the blocks parseSearchReplaceBlocks returned, or the changes
\* parseDirectSectionChanges returned, never raises an error.
C16_PatchCoreNeverThrows ==
  pc # "threw"

\* C17: the error "No valid changes found in AI response" is raised exactly
\* when neither dialect yields an edit; when direct changes are found the
\* search/replace dialect is not consulted; and whenever a dialect yields an
\* edit a document is returned.
C17_NoValidChangesExactly ==
  /\ pc = "no valid changes"
       => (Len(sectionChanges) = 0 /\ Len(BlocksOfResponse) = 0)
  /\ (pc \in {"done", "threw"} /\ Len(sectionChanges) > 0)
       => blocks = << >>
  /\ (pc \in {"done", "threw", "no valid changes"}
        /\ (Len(sectionChanges) > 0 \/ Len(BlocksOfResponse) > 0))
       => pc = "done"

----------------------------------------------------------------------------
(* Properties of the section splitter.                                     *)

\* The lines of doc that start with "[" once trimmed.
HeadLines(doc) ==
  {i \in 1..Len(Split(doc)) : StartsWithBracket(Split(doc)[i])}

\* The last line before the header after the k-th, or the last line of doc.
LastUnder(doc, k) ==
  IF k = Cardinality(HeadLines(doc)) THEN Len(Split(doc))
  ELSE NthOf(HeadLines(doc), k + 1) - 1

\* The last line from the k-th header to LastUnder that is not blank.
LastSolidUnder(doc, k) ==
  MaxOf({i \in NthOf(HeadLines(doc), k)..LastUnder(doc, k) :
           IsNonBlank(Split(doc)[i])})

\* s without the whitespace at its end.
RightTrim(s) ==
  LET solid == {i \in 1..Len(s) : ~IsSpace(s[i])}
  IN  IF solid = {} THEN Empty ELSE SubSeq(s, 1, MaxOf(solid))

\* C18 as stated: blank input and input without a header give empty lists;
\* otherwise there is one section per header line, lines before the first
\* header are in none, and the lines of a section after its header are all
\* the lines up to the next header, unchanged and in order.
C18_LinesUnderNearestHeader ==
  pc = "returned" =>
    LET lines == Split(content)
        heads == HeadLines(content)
    IN  /\ (Trim(content) = Empty \/ heads = {})
             => (sections = << >> /\ sectionOrders = << >>)
        /\ Len(sections) = Cardinality(heads)
        /\ \A k \in 1..Len(sections) :
             /\ Trim(Head(Split(sections[k]))) = Trim(lines[NthOf(heads, k)])
             /\ Tail(Split(sections[k]))
                  = SubSeq(lines, NthOf(heads, k) + 1, LastUnder(content, k))

\* C18 amended: as stated, except that a section ends at its last line that
\* is not blank, and that line is stored without the whitespace at its end.
C18_LinesUnderNearestHeaderAmended ==
  pc = "returned" =>
    LET lines == Split(content)
        heads == HeadLines(content)
    IN  /\ (Trim(content) = Empty \/ heads = {})
             => (sections = << >> /\ sectionOrders = << >>)
        /\ Len(sections) = Cardinality(heads)
        /\ \A k \in 1..Len(sections) :
             LET h == NthOf(heads, k)
                 last == LastSolidUnder(content, k)
             IN  /\ Trim(Head(Split(sections[k]))) = Trim(lines[h])
                 /\ Tail(Split(sections[k]))
                      = IF last = h THEN << >>
                        ELSE SubSeq(lines, h + 1, last - 1)
                             \o <<RightTrim(lines[last])>>

\* A line before the first header, a header, an indented line and a blank
\* line have been split into one section of two lines.
C18_Witness ==
  /\ pc = "returned"
  /\ content = Join(<< <<" ", "a", "=", "1", " ">>, HeaderS,
                       <<" ", "a", "=", "1", " ">>, Empty >>)
  /\ sections = << HeaderS \o <<NL>> \o <<" ", "a", "=", "1">> >>

\* C19: processSection is called once per section and in document order,
\* the i-th call with index i - 1 and with the text stored as sections[i];
\* on return sections and sectionOrders have the same length, one entry per
\* header line, and sectionOrders[i] is the name passed with sections[i].
C19_CallbackPerSection ==
  /\ Len(processed) = Len(sections)
  /\ \A i \in 1..Len(processed) :
       /\ processed[i].section = sections[i]
       /\ processed[i].index = i - 1
  /\ pc = "returned" =>
       /\ Len(sections) = Len(sectionOrders)
       /\ Len(processed) = IF Trim(content) = Empty THEN 0
                           ELSE Cardinality(HeadLines(content))
       /\ \A i \in 1..Len(sections) :
            /\ sectionOrders[i] = processed[i].sectionName
            /\ Trim(Head(Split(sections[i])))
                 = Trim(Split(content)[NthOf(HeadLines(content), i)])

\* Three sections, two of them of the same name, have been handed over
\* with the indices 0, 1 and 2.
C19_Witness ==
  /\ pc = "returned"
  /\ content = Join(<<HeaderS, <<" ", "a", "=", "1", " ">>, HeaderT,
                      <<" ", "[", "s", "]", " ">> >>)
  /\ [i \in 1..Len(processed) |-> processed[i].index] = <<0, 1, 2>>
  /\ sectionOrders = << <<"s">>, <<"t">>, <<"s">> >>

\* The name in the header of a stored section.
NameOfSection(section) == SliceInner(Trim(Head(Split(section))))

\* C20: every section is in exactly one of includedSections and
\* excludedSections, in includedSections exactly when its name is on the
\* allow-list; both lists keep document order, and sectionOrders names all
\* the sections in document order.
C20_AllowListPartition ==
  /\ Len(includedSections) + Len(excludedSections) = Len(sections)
  /\ pc = "returned" =>
       LET allowed == {i \in 1..Len(sections) : NameOfSection(sections[i]) \in sectionNames}
           others == (1..Len(sections)) \ allowed
       IN  /\ includedSections
                = [k \in 1..Cardinality(allowed) |-> sections[NthOf(allowed, k)]]
           /\ excludedSections
                = [k \in 1..Cardinality(others) |-> sections[NthOf(others, k)]]
           /\ sectionOrders = [i \in 1..Len(sections) |-> NameOfSection(sections[i])]

\* With only s on the allow-list, the two s sections of a document are
\* included in their order and the t section between them is excluded.
C20_Witness ==
  /\ pc = "returned"
  /\ sectionNames = {<<"s">>}
  /\ content = Join(<<HeaderS, <<" ", "a", "=", "1", " ">>, HeaderT,
                      <<" ", "[", "s", "]", " ">> >>)
  /\ includedSections = << HeaderS \o <<NL>> \o <<" ", "a", "=", "1">>, HeaderS >>
  /\ excludedSections = <<HeaderT>>

----------------------------------------------------------------------------
(* Properties of lookups by section name.                                  *)

\* Every section text of doc starts with a header that has both brackets.
HeadersWellFormed(doc) ==
  LET split == splitContentBySections(doc)
  IN  \A k \in 1..Len(split.sections) : HeaderMatch(split.sections[k]).matched

\* The first section of doc that carries the given name.
FirstNamed(doc, name) == Head(SectionsNamed(doc, name))

\* The reconstruction without edits holds, for every name of the order, the
\* first section of that name.
RebuiltFromFirst ==
  LET order == splitContentBySections(content).sectionOrders
  IN  result = Join([k \in 1..Len(order) |-> FirstNamed(content, order[k])])

\* The document after one SectionChange holds, for every name of the order,
\* the first section of that name, edited when the change names it.
ChangedFromFirst ==
  LET order == splitContentBySections(content).sectionOrders
      change == sectionChanges[1]
  IN  result =
        Join([k \in 1..Len(order) |->
                IF order[k] = change.sectionName
                THEN applyParameterChanges(FirstNamed(content, order[k]),
                                           change.parameters).text
                ELSE FirstNamed(content, order[k])])

\* C21: in a document with well-formed headers every lookup by name resolves
\* to the first section of that name: reconstructPP3Content puts that text
\* at every place of the name, and applyDirectSectionChanges edits and puts
\* out that text.
C21_FirstOccurrenceWins ==
  HeadersWellFormed(content) =>
    /\ pc = "rebuilt" => RebuiltFromFirst
    /\ (pc = "changed" /\ Len(sectionChanges) = 1) => ChangedFromFirst

\* The sections of doc whose header line lacks the closing bracket.
MalformedSections(doc) ==
  LET split == splitContentBySections(doc)
  IN  {k \in 1..Len(split.sections) : ~HeaderMatch(split.sections[k]).matched}

\* The section texts of a document, as a set.
SectionTexts(doc) ==
  LET split == splitContentBySections(doc)
  IN  {split.sections[k] : k \in 1..Len(split.sections)}

\* C22: a section opened by a header without closing bracket is present,
\* header line included and lines unchanged, in the reconstruction of the
\* unmodified split output and in the output of applyDirectSectionChanges
\* when no change names that section.
C22_MalformedHeaderFidelity ==
  LET split == splitContentBySections(content)
  IN  \A k \in MalformedSections(content) :
        /\ pc = "rebuilt" => split.sections[k] \in SectionTexts(result)
        /\ (/\ pc = "changed"
            /\ Len(sectionChanges) > 0
            /\ \A j \in 1..Len(sectionChanges) :
                 sectionChanges[j].sectionName # split.sectionOrders[k])
           => split.sections[k] \in SectionTexts(result)

----------------------------------------------------------------------------
(* Further properties of the patch engine.                                 *)

\* The driver's literal replacement finds the trimmed search text in the
\* document the fuzzy call left unchanged, and puts a different text there.
OuterLiteralActs ==
  /\ fuzzyResult = content
  /\ IndexOf(content, Trim(search)) > 0
  /\ Trim(search) # Trim(replace)

\* C23 as stated: for a single valid block the driver returns exactly what
\* applyFuzzySearchReplace returns.
C23_FallbacksRedundant ==
  pc = "done" => result = fuzzyResult

\* C23 amended: the driver returns what applyFuzzySearchReplace returns
\* except when the fuzzy call left the document unchanged and the trimmed
\* search text occurs verbatim in it with a different replace text; then the
\* driver replaces the first occurrence.
C23_FallbacksRedundantAmended ==
  pc = "done" =>
    /\ (result # fuzzyResult) <=> OuterLiteralActs
    /\ OuterLiteralActs =>
         result = ReplaceFirst(content, Trim(search), Trim(replace))

\* C23 witness: the header is in the document, the parameter counts agree,
\* no line has a listed key, so the fuzzy call changes nothing; the driver's
\* literal replacement runs, finds nothing, and returns the same document.
C23_Witness ==
  /\ pc = "done"
  /\ HeaderInDocument(content, search)
  /\ ParamCount(search) = ParamCount(replace)
  /\ ParamCount(search) > 0
  /\ Trim(search) # Trim(replace)
  /\ fuzzyResult = content
  /\ result = fuzzyResult

\* The lines of the document that belong to the target section of the search
\* text: after the first line equal to its header, before the next line
\* that is a header with both brackets.
TargetSectionLines ==
  LET doc == Split(content)
      h == MinOf({i \in 1..Len(doc) : Trim(doc[i]) = TargetHeader(search)})
  IN  {i \in (h + 1)..Len(doc) :
         \A j \in (h + 1)..i : ~IsWellFormedHeader(Trim(doc[j]))}

\* The position of the pairing used for the key of the j-th search
\* parameter: the last search parameter of that key.
PairingOf(sp, j) == MaxOf({x \in 1..Len(sp) : KeyOf(sp[x]) = KeyOf(sp[j])})

\* C24: on the line-skipping path every non-blank line of the target section
\* whose key is the key of the i-th search parameter becomes the i-th replace
\* parameter, trimmed and behind the document line's own indentation,
\* whatever its key and whatever the values were; when search parameters
\* share a key the pairing of the last of them is used.
C24_PositionalPairing ==
  LineSkipping =>
    LET doc == Split(content)
        out == Split(fuzzyResult)
        sp == extractParameters(Split(Trim(search)))
        rp == extractParameters(Split(Trim(replace)))
    IN  /\ Len(out) = Len(doc)
        /\ \A i \in TargetSectionLines : \A j \in 1..Len(sp) :
             (Trim(doc[i]) # Empty /\ KeyOf(Trim(doc[i])) = KeyOf(sp[j]))
               => out[i] = Indentation(doc[i]) \o rp[PairingOf(sp, j)]

\* C24 witness: the search text lists the key a twice, and a line of the
\* target section with key a and another value became the second replace
\* parameter, which has another key.
C24_Witness ==
  /\ LineSkipping
  /\ LET sp == extractParameters(Split(Trim(search)))
         rp == extractParameters(Split(Trim(replace)))
     IN  /\ Len(sp) = 2
         /\ KeyOf(sp[1]) = KeyOf(sp[2])
         /\ rp[1] # rp[2]
         /\ KeyOf(rp[2]) # KeyOf(sp[2])
         /\ \E i \in TargetSectionLines :
              /\ KeyOf(Trim(Split(content)[i])) = KeyOf(sp[1])
              /\ Split(content)[i] # Indentation(Split(content)[i]) \o sp[1]
              /\ Split(fuzzyResult)[i] = Indentation(Split(content)[i]) \o rp[2]

\* C25: rebuilding a document from the section map of its split sections
\* gives the same text as rebuilding it from the included and excluded
\* lists with no edited sections.
C25_ReconstructionPathsAgree ==
  pc = "rebuilt" =>
    result = reconstructContent(sectionOrders,
               createSectionMap(splitContentBySections(content).sections))

----------------------------------------------------------------------------
(* Further properties of the splitter and of its agreement with the patch  *)
(* engine.                                                                 *)

\* s without a leading "[" and without a trailing "]".
StripBrackets(s) ==
  LET from == IF StartsWith(s, <<"[">>) THEN 2 ELSE 1
      to == IF EndsWith(s, <<"]">>) THEN Len(s) - 1 ELSE Len(s)
  IN  SubSeq(s, from, to)

\* C26: the name recorded in sectionOrders for a header line is the trimmed
\* line without its leading "[" and its trailing "]"; a header without the
\* closing bracket keeps all the characters after the "[".
C26_SectionNaming ==
  pc = "rebuilt" =>
    /\ Len(sectionOrders) = Len(HeaderSequence(content))
    /\ \A k \in 1..Len(sectionOrders) :
         sectionOrders[k] = StripBrackets(HeaderSequence(content)[k])

\* The lines the splitter assigns to the section the search text targets:
\* from the first line equal to the search header to the line before the
\* next line that starts with "[".
SplitterTargetExtent ==
  LET doc == Split(content)
      h == MinOf({i \in 1..Len(doc) : Trim(doc[i]) = TargetHeader(search)})
      later == {i \in (h + 1)..Len(doc) : StartsWithBracket(doc[i])}
  IN  [first |-> h, last |-> IF later = {} THEN Len(doc) ELSE MinOf(later) - 1]

\* C27: applyFuzzySearchReplace changes nothing outside the lines the
\* splitter assigns to the section whose header matches the search header:
\* the lines before that section and the lines after it come back as they
\* were, and a document without that header comes back unchanged.
C27_EngineWithinSplitterSection ==
  (pc = "done" /\ HasHeader(search)) =>
    IF ~HeaderInDocument(content, search) THEN fuzzyResult = content
    ELSE LET doc == Split(content)
             out == Split(fuzzyResult)
             extent == SplitterTargetExtent
             after == Len(doc) - extent.last
         IN  /\ Len(out) >= (extent.first - 1) + after
             /\ SubSeq(out, 1, extent.first - 1) = SubSeq(doc, 1, extent.first - 1)
             /\ SubSeq(out, Len(out) - after + 1, Len(out))
                  = SubSeq(doc, extent.last + 1, Len(doc))

----------------------------------------------------------------------------
(* Further properties of the pipeline.                                     *)

\* The trimmed lines of a text, as a set.
TrimmedLines(txt) == {Trim(Split(txt)[i]) : i \in 1..Len(Split(txt))}

\* The parameter lines that stand in the search half of a block of the
\* response and in no replace half.
SearchOnlyLines ==
  LET list == BlocksOfResponse
      searched == UNION {TrimmedLines(list[i].search) : i \in 1..Len(list)}
      replaced == UNION {TrimmedLines(list[i].replace) : i \in 1..Len(list)}
  IN  {v \in searched \ replaced : IsParameterText(v)}

\* C28: when the response holds search/replace blocks, a parameter line that
\* stands only in a search half is no line of the returned document unless
\* it was a line of the base profile.
C28_SearchTextNeverWritten ==
  (pc = "done" /\ Len(BlocksOfResponse) > 0) =>
    \A v \in SearchOnlyLines :
      v \in TrimmedLines(result) => v \in TrimmedLines(content)

----------------------------------------------------------------------------
(* Further properties of direct section changes.                           *)

\* One SectionChange has been applied to a document with well-formed
\* headers in which the section it names occurs once.
OneChangeApplied ==
  /\ pc = "changed"
  /\ Len(sectionChanges) = 1
  /\ HeadersWellFormed(content)
  /\ Len(SectionsNamed(content, sectionChanges[1].sectionName)) = 1

\* The first line of a section's lines whose key is the given name, or 0.
FirstWithKey(lines, name) ==
  LET hits == {i \in 1..Len(lines) : HasEquals(lines[i]) /\ Trim(KeyOf(lines[i])) = name}
  IN  IF hits = {} THEN 0 ELSE MinOf(hits)

\* C29: the section a SectionChange names keeps its number of lines, and a
\* line of it differs afterwards only if it is the first line whose key is
\* the name of one of the change's parameters, and then it is exactly that
\* parameter's line; so each parameter rewrites at most one line.
C29_OneLinePerParameter ==
  OneChangeApplied =>
    LET name == sectionChanges[1].sectionName
        parameters == sectionChanges[1].parameters
        before == Split(FirstNamed(content, name))
        after == Split(FirstNamed(result, name))
    IN  /\ Len(SectionsNamed(result, name)) = 1
        /\ Len(after) = Len(before)
        /\ \A i \in 1..Len(before) :
             after[i] # before[i] =>
               \E j \in 1..Len(parameters) :
                 /\ i = FirstWithKey(before, parameters[j].name)
                 /\ after[i] = parameters[j].line

\* C29 witness: the section holds two lines with the key a; the change
\* rewrote the first to its parameter line and left the second.
C29_Witness ==
  /\ OneChangeApplied
  /\ LET name == sectionChanges[1].sectionName
         before == Split(FirstNamed(content, name))
         after == Split(FirstNamed(result, name))
     IN  /\ Len(before) = 3
         /\ Trim(KeyOf(before[2])) = <<"a">>
         /\ before[3] = before[2]
         /\ after[2] = <<"a", "=", "5">>
         /\ after[3] = before[3]

----------------------------------------------------------------------------
(* Properties of the best-generation selection.                            *)

\* The places (from 1) of the generations that count as successful once the
\* evaluation images have been read.
SuccessfulPlaces == {i \in 1..Len(generationResults) : generationResults[i].success}

\* C30: with at least two successful generations, an answer
\* "BEST_GENERATION: k" with k from 1 to their number selects the k-th
\* successful generation in generation order; an answer without a number or
\* with a number out of range, and the failure of every model, select the
\* first successful generation; a failed generation is never selected.
C30_BestGenerationSelection ==
  (pc \in {"evaluated", "fallback"} /\ Cardinality(SuccessfulPlaces) >= 2) =>
    LET match == BestGenerationMatch(responseText)
        inRange == match.matched /\ match.displayIndex \in 1..Cardinality(SuccessfulPlaces)
    IN  /\ (pc = "evaluated" /\ inRange)
             => bestIndex = NthOf(SuccessfulPlaces, match.displayIndex) - 1
        /\ (pc = "evaluated" /\ ~inRange)
             => bestIndex = MinOf(SuccessfulPlaces) - 1
        /\ pc = "fallback" => bestIndex = MinOf(SuccessfulPlaces) - 1
        /\ bestIndex + 1 \in SuccessfulPlaces

====
